---- MODULE Spec2Model ----
(***************************************************************************)
(* A model of gobigbang/binder: the DefaultBinder of binder.go (NewBinder,  *)
(* Bind, BindPathParams, BindQueryParams, BindBody, BindHeaders, bindData)  *)
(* and the helpers of utils.go (getPrefixedFieldNames, trimData,            *)
(* trimFileFields, setWithProperType, handleArrayValues, ...).              *)
(*                                                                         *)
(* Go values are modelled as follows.                                       *)
(*   string                  a TLA+ string                                  *)
(*   map[string][]string     a sequence of entries [k |-> key, v |-> seq]   *)
(*                           with distinct keys; the order of the sequence  *)
(*                           is the order in which `range` visits the map   *)
(*                           in the run at hand (Go leaves it unspecified,  *)
(*                           the requests enumerate the orders)             *)
(*   reflect.Type            a record with a field `kind`                   *)
(*   a struct value          a record indexed by the Go field names         *)
(*   a slice value           a sequence (nil and empty are not told apart)  *)
(*   a pointer value         [nil |-> TRUE] or [nil |-> FALSE, v |-> x]     *)
(*   a destination map       [nil |-> TRUE] or [nil |-> FALSE, m |-> f]     *)
(*   error                   a string, "" for nil                           *)
(***************************************************************************)
EXTENDS Integers, Sequences, FiniteSets, TLC

VARIABLES typ, val, pre, req, op, err, ran, dlg, calls

\* the package variables DefaultBinderInstance and DefaultHttpBinder, the
\* number of runs of NewBinder and the goroutines that call GetBinder and
\* GetHttpBinder
VARIABLES DefaultBinderInstance, DefaultHttpBinder, created, gor

bindvars == <<typ, val, pre, req, op, err, ran, dlg, calls>>

getvars == <<DefaultBinderInstance, DefaultHttpBinder, created, gor>>

vars == <<typ, val, pre, req, op, err, ran, dlg, calls,
          DefaultBinderInstance, DefaultHttpBinder, created, gor>>

(***************************************************************************)
(* Bounds of the model.                                                     *)
(***************************************************************************)
\* the number of bind calls made on one destination
MaxCalls == 2

\* the number of goroutines that ask for the default binder
MaxGoroutines == 2

(***************************************************************************)
(* Package variables (binder.go).                                           *)
(***************************************************************************)
DefaultDeepObjectSeparator == "."
DefaultHeaderTagName == "header"
DefaultFormTagName == "form"
DefaultQueryTagName == "query"
DefaultParamTagName == "param"
MaxArraySize == 1000

HeaderContentType == "Content-Type"
MIMEApplicationJSON == "application/json"
MIMEApplicationXML == "application/xml"
MIMETextXML == "text/xml"
MIMEApplicationForm == "application/x-www-form-urlencoded"
MIMEMultipartForm == "multipart/form-data"

(***************************************************************************)
(* Strings: package strings and strconv of the Go library.                  *)
(***************************************************************************)
Char(s, i) == SubSeq(s, i, i)

HasPrefix(s, p) == Len(s) >= Len(p) /\ SubSeq(s, 1, Len(p)) = p

TrimPrefix(s, p) == IF HasPrefix(s, p) THEN SubSeq(s, Len(p) + 1, Len(s)) ELSE s

\* strings.Cut(s, sep) for a one-character separator: the text before the
\* first sep, or all of s when there is none
RECURSIVE CutFrom(_, _, _)
CutFrom(s, sep, i) ==
    IF i > Len(s) THEN s
    ELSE IF Char(s, i) = sep THEN SubSeq(s, 1, i - 1)
    ELSE CutFrom(s, sep, i + 1)

CutBefore(s, sep) == CutFrom(s, sep, 1)

IsSpace(c) == c \in {" ", "\t", "\n", "\r"}

RECURSIVE TrimLeft(_)
TrimLeft(s) ==
    IF Len(s) > 0 /\ IsSpace(Char(s, 1)) THEN TrimLeft(SubSeq(s, 2, Len(s))) ELSE s

RECURSIVE TrimRight(_)
TrimRight(s) ==
    IF Len(s) > 0 /\ IsSpace(Char(s, Len(s)))
    THEN TrimRight(SubSeq(s, 1, Len(s) - 1)) ELSE s

TrimSpace(s) == TrimRight(TrimLeft(s))

UpperLetters == "ABCDEFGHIJKLMNOPQRSTUVWXYZ"
LowerLetters == "abcdefghijklmnopqrstuvwxyz"

RECURSIVE IndexIn(_, _, _)
IndexIn(c, alphabet, i) ==
    IF i > Len(alphabet) THEN 0
    ELSE IF Char(alphabet, i) = c THEN i
    ELSE IndexIn(c, alphabet, i + 1)

UpperSet == {Char(UpperLetters, i) : i \in 1..26}
LowerSet == {Char(LowerLetters, i) : i \in 1..26}
DigitSet == {"0", "1", "2", "3", "4", "5", "6", "7", "8", "9"}

IsUpper(c) == c \in UpperSet
IsLower(c) == c \in LowerSet
IsDigit(c) == c \in DigitSet
DigitVal(c) == IndexIn(c, "0123456789", 1) - 1

\* the lower-case letter at the place i of the alphabet, c when i is 0
LowerAt(i, c) == IF i > 0 THEN Char(LowerLetters, i) ELSE c

\* the case folding of one ASCII character
Fold(c) == LowerAt(IndexIn(c, UpperLetters, 1), c)

EqualFold(a, b) ==
    /\ Len(a) = Len(b)
    /\ \A i \in 1..Len(a) : Fold(Char(a, i)) = Fold(Char(b, i))

RECURSIVE Join(_, _)
Join(parts, sep) ==
    IF Len(parts) = 0 THEN ""
    ELSE IF Len(parts) = 1 THEN parts[1]
    ELSE parts[1] \o sep \o Join(Tail(parts), sep)

AllDigits(s) == Len(s) > 0 /\ \A i \in 1..Len(s) : IsDigit(Char(s, i))

RECURSIVE StripZeros(_)
StripZeros(s) ==
    IF Len(s) > 1 /\ Char(s, 1) = "0" THEN StripZeros(SubSeq(s, 2, Len(s))) ELSE s

RECURSIVE DigitsValue(_)
DigitsValue(s) ==
    IF Len(s) = 0 THEN 0
    ELSE 10 * DigitsValue(SubSeq(s, 1, Len(s) - 1)) + DigitVal(Char(s, Len(s)))

\* the largest number of significant digits whose value the model computes
MaxDigits == 9

\* a <= b for two numerals without sign and without leading zeros
RECURSIVE DigitsLE(_, _, _)
DigitsLE(a, b, i) ==
    IF i > Len(a) THEN TRUE
    ELSE IF DigitVal(Char(a, i)) # DigitVal(Char(b, i))
    THEN DigitVal(Char(a, i)) < DigitVal(Char(b, i))
    ELSE DigitsLE(a, b, i + 1)

NumeralLE(a, b) == Len(a) < Len(b) \/ (Len(a) = Len(b) /\ DigitsLE(a, b, 1))

\* 1<<(bitSize-1) - 1, 1<<(bitSize-1) and 1<<bitSize - 1 as numerals;
\* bitSize 0 is strconv.IntSize, 64 on the builds at hand
IntMax(bitSize) ==
    CASE bitSize = 8 -> "127"
      [] bitSize = 16 -> "32767"
      [] bitSize = 32 -> "2147483647"
      [] OTHER -> "9223372036854775807"

IntMin(bitSize) ==
    CASE bitSize = 8 -> "128"
      [] bitSize = 16 -> "32768"
      [] bitSize = 32 -> "2147483648"
      [] OTHER -> "9223372036854775808"

UintMax(bitSize) ==
    CASE bitSize = 8 -> "255"
      [] bitSize = 16 -> "65535"
      [] bitSize = 32 -> "4294967295"
      [] OTHER -> "18446744073709551615"

\* the integer of sign neg and magnitude sig: n when the model computes it,
\* and otherwise the numeral itself in big, which is "" for a computed value
Computed(sig) == Len(sig) <= MaxDigits /\ NumeralLE(sig, "999999999")

Number(neg, sig) ==
    IF Computed(sig)
    THEN [ok |-> TRUE, n |-> IF neg THEN 0 - DigitsValue(sig) ELSE DigitsValue(sig),
          big |-> ""]
    ELSE [ok |-> TRUE, n |-> 0, big |-> IF neg THEN "-" \o sig ELSE sig]

NoNumber == [ok |-> FALSE, n |-> 0, big |-> ""]

\* the value that SetInt and SetUint store for a parsed number
Stored(r) == IF r.big = "" THEN r.n ELSE [big |-> r.big]

\* the value n checked against the range of bitSize bits
InRange(neg, sig, bitSize) ==
    NumeralLE(sig, IF neg THEN IntMin(bitSize) ELSE IntMax(bitSize))

\* the digits of a numeral after its sign, leading zeros dropped
ParseDigits(neg, sig, bitSize) ==
    IF ~AllDigits(sig) \/ ~InRange(neg, sig, bitSize) THEN NoNumber
    ELSE Number(neg /\ sig # "0", sig)

HasSign(s) == Len(s) > 0 /\ Char(s, 1) \in {"+", "-"}

\* strconv.ParseInt(s, 10, bitSize): [ok, n, big]; ok is FALSE for a syntax
\* error and for a value out of range
ParseInt(s, bitSize) ==
    ParseDigits(Len(s) > 0 /\ Char(s, 1) = "-",
                StripZeros(IF HasSign(s) THEN SubSeq(s, 2, Len(s)) ELSE s),
                bitSize)

\* strconv.ParseUint(s, 10, bitSize): no sign is accepted
ParseUint(s, bitSize) ==
    IF ~AllDigits(s) \/ ~NumeralLE(StripZeros(s), UintMax(bitSize)) THEN NoNumber
    ELSE Number(FALSE, StripZeros(s))

\* strconv.Atoi(s)
Atoi(s) == ParseInt(s, 0)

\* idx > limit and idx < 0 for a parsed number
Exceeds(idx, limit) ==
    IF idx.big # "" THEN ~HasPrefix(idx.big, "-") ELSE idx.n > limit

Negative(idx) == IF idx.big # "" THEN HasPrefix(idx.big, "-") ELSE idx.n < 0

\* the digits of s without the zeros at its end
RECURSIVE StripTrailingZeros(_)
StripTrailingZeros(s) ==
    IF Len(s) > 0 /\ Char(s, Len(s)) = "0"
    THEN StripTrailingZeros(SubSeq(s, 1, Len(s) - 1)) ELSE s

AllDigitsOrNone(s) == \A i \in 1..Len(s) : IsDigit(Char(s, i))

\* the decimal of integer part ip and fraction fr as the model keeps it
Decimal(neg, ip, fr) ==
    [float |-> (IF neg THEN "-" ELSE "")
               \o (IF ip = "" THEN "0" ELSE StripZeros(ip))
               \o (IF fr = "" THEN "" ELSE "." \o fr)]

NoFloat == [ok |-> FALSE, f |-> [float |-> "0"]]

\* the numeral body, which has no sign: digits with at most one point and at
\* least one digit, ip being the text before the point
ParseDecimal(neg, body, ip) ==
    IF ~AllDigitsOrNone(ip) \/ ~AllDigitsOrNone(SubSeq(body, Len(ip) + 2, Len(body)))
       \/ Len(body) = 0 \/ body = "."
    THEN NoFloat
    ELSE [ok |-> TRUE,
          f |-> Decimal(neg, ip, StripTrailingZeros(SubSeq(body, Len(ip) + 2, Len(body))))]

\* the cases inf, infinity and nan of strconv.ParseFloat
ParseSpecial(s, neg, body) ==
    IF EqualFold(body, "inf") \/ EqualFold(body, "infinity")
    THEN [ok |-> TRUE, f |-> [float |-> IF neg THEN "-Inf" ELSE "+Inf"]]
    ELSE IF EqualFold(s, "nan") THEN [ok |-> TRUE, f |-> [float |-> "NaN"]]
    ELSE ParseDecimal(neg, body, CutBefore(body, "."))

\* strconv.ParseFloat(s, bitSize) for the numerals written with a sign,
\* digits and a point, and for inf and nan: [ok, f], f being the float
\* nearest to the decimal, which the model keeps as the decimal itself.  A
\* numeral of at most MaxDigits digits is within the range of both bit sizes.
ParseFloat(s, bitSize) ==
    ParseSpecial(s, Len(s) > 0 /\ Char(s, 1) = "-",
                 IF HasSign(s) THEN SubSeq(s, 2, Len(s)) ELSE s)

\* strconv.ParseBool(s)
ParseBool(s) ==
    IF s \in {"1", "t", "T", "TRUE", "true", "True"} THEN [ok |-> TRUE, b |-> TRUE]
    ELSE IF s \in {"0", "f", "F", "FALSE", "false", "False"} THEN [ok |-> TRUE, b |-> FALSE]
    ELSE [ok |-> FALSE, b |-> FALSE]

(***************************************************************************)
(* Regular expressions (package regexp) for the patterns of binder.go:      *)
(*   ArrayMatcherRegexp   \[([0-9]+)\]                                      *)
(*   MapMatcherRegexp     \[([a-zA-Z0-9\-\_\.]+)\]                          *)
(*   ArrayNotationRegexp  \[([a-zA-Z0-9\-\_\.]+)\]                          *)
(*   PathMatcherRegexp    \{([^}]+)\}                                       *)
(* A matcher is named by the class of the characters of its group.          *)
(***************************************************************************)
ArrayMatcherRegexp == "digits"
MapMatcherRegexp == "mapkey"
ArrayNotationRegexp == "mapkey"
PathMatcherRegexp == "notbrace"

InClass(c, cls) ==
    CASE cls = "digits" -> IsDigit(c)
      [] cls = "mapkey" -> IsDigit(c) \/ IsUpper(c) \/ IsLower(c) \/ c \in {"-", "_", "."}
      [] cls = "notbrace" -> c # "}"

OpenOf(cls) == IF cls = "notbrace" THEN "{" ELSE "["
CloseOf(cls) == IF cls = "notbrace" THEN "}" ELSE "]"

\* the length of the longest run of characters of the class starting at i
RECURSIVE ClassRun(_, _, _)
ClassRun(s, i, cls) ==
    IF i <= Len(s) /\ InClass(Char(s, i), cls) THEN 1 + ClassRun(s, i + 1, cls) ELSE 0

\* matcher.FindAllStringSubmatch(s, -1), from position i on: the captured
\* groups of the successive leftmost matches
RECURSIVE FindAllFrom(_, _, _)
FindAllFrom(s, i, cls) ==
    IF i > Len(s) THEN <<>>
    ELSE IF Char(s, i) = OpenOf(cls)
    THEN LET n == ClassRun(s, i + 1, cls)
         IN  IF n >= 1 /\ i + 1 + n <= Len(s) /\ Char(s, i + 1 + n) = CloseOf(cls)
             THEN <<SubSeq(s, i + 1, i + n)>> \o FindAllFrom(s, i + n + 2, cls)
             ELSE FindAllFrom(s, i + 1, cls)
    ELSE FindAllFrom(s, i + 1, cls)

FindAllStringSubmatch(s, cls) == FindAllFrom(s, 1, cls)

(***************************************************************************)
(* map[string][]string and map[string][]*multipart.FileHeader.              *)
(***************************************************************************)
Keys(m) == {m[i].k : i \in 1..Len(m)}

Has(m, key) == \E i \in 1..Len(m) : m[i].k = key

Get(m, key) == m[CHOOSE i \in 1..Len(m) : m[i].k = key].v

\* m[key] of Go: the zero value (no values) for a missing key
Lookup(m, key) == IF Has(m, key) THEN Get(m, key) ELSE <<>>

\* m[key] = v
Put(m, key, v) ==
    IF Has(m, key)
    THEN [i \in 1..Len(m) |-> IF m[i].k = key THEN [k |-> key, v |-> v] ELSE m[i]]
    ELSE Append(m, [k |-> key, v |-> v])

\* url.Values.Get(key): the first value of the key, "" when there is none
ValuesGet(m, key) ==
    IF Has(m, key) /\ Len(Get(m, key)) > 0 THEN Get(m, key)[1] ELSE ""

(***************************************************************************)
(* utils.go: the notation resolver and the data projector.                  *)
(***************************************************************************)
\* the body of the loop of getPrefixedFieldNames for one key: the entry
\* added to result, <<>> when none is
PrefixedFieldName(prefix, k, matcher, deepSeparator) ==
    IF HasPrefix(k, prefix)
    THEN IF HasPrefix(k, prefix \o deepSeparator)
         THEN <<[k |-> k, v |-> TrimPrefix(k, prefix \o deepSeparator)]>>
         ELSE LET matches == FindAllStringSubmatch(k, matcher)
              IN  IF Len(matches) > 0
                  THEN <<[k |-> k, v |-> Join(matches, deepSeparator)]>>
                  ELSE <<>>
    ELSE <<>>

RECURSIVE getPrefixedFieldNames(_, _, _, _)
getPrefixedFieldNames(prefix, keys, matcher, deepSeparator) ==
    IF Len(keys) = 0 THEN <<>>
    ELSE PrefixedFieldName(prefix, Head(keys), matcher, deepSeparator)
         \o getPrefixedFieldNames(prefix, Tail(keys), matcher, deepSeparator)

\* result[v] = data[k] for the entries of fieldNames from the i-th on
RECURSIVE TrimInto(_, _, _, _)
TrimInto(result, fieldNames, data, i) ==
    IF i > Len(fieldNames) THEN result
    ELSE TrimInto(Put(result, fieldNames[i].v, Lookup(data, fieldNames[i].k)),
                  fieldNames, data, i + 1)

trimData(prefix, data, matcher, deepSeparator) ==
    LET keys == [i \in 1..Len(data) |-> data[i].k]
        fieldNames == getPrefixedFieldNames(prefix, keys, matcher, deepSeparator)
    IN  TrimInto(<<>>, fieldNames, data, 1)

trimFileFields(prefix, files, matcher, deepSeparator) ==
    LET keys == [i \in 1..Len(files) |-> files[i].k]
        fieldNames == getPrefixedFieldNames(prefix, keys, matcher, deepSeparator)
    IN  TrimInto(TrimInto(<<>>, fieldNames, files, 1), fieldNames, files, 1)

(***************************************************************************)
(* Destination types (reflect.Type) and their values (reflect.Value).       *)
(***************************************************************************)
TString == [kind |-> "string"]
TInt == [kind |-> "int"]
TInt8 == [kind |-> "int8"]
TInt16 == [kind |-> "int16"]
TInt32 == [kind |-> "int32"]
TInt64 == [kind |-> "int64"]
TUint == [kind |-> "uint"]
TUint8 == [kind |-> "uint8"]
TUint16 == [kind |-> "uint16"]
TUint32 == [kind |-> "uint32"]
TUint64 == [kind |-> "uint64"]
TFloat32 == [kind |-> "float32"]
TFloat64 == [kind |-> "float64"]
TComplex128 == [kind |-> "complex128"]
TBool == [kind |-> "bool"]
TInterface == [kind |-> "interface"]
TPtr(t) == [kind |-> "ptr", elem |-> t]
TSlice(t) == [kind |-> "slice", elem |-> t]
\* map[string]t
TMap(t) == [kind |-> "map", elem |-> t]
TStruct(fields) == [kind |-> "struct", fields |-> fields]

\* a struct field: its name, its type and its tag (a record from tag names
\* to keys; a tag name that is absent gives "", as reflect.StructTag.Get)
Field(name, t, tags) == [name |-> name, typ |-> t, tags |-> tags, anon |-> FALSE]
Embedded(name, t, tags) == [name |-> name, typ |-> t, tags |-> tags, anon |-> TRUE]
NoTags == [none |-> ""]

TagGet(f, tag) == IF tag \in DOMAIN f.tags THEN f.tags[tag] ELSE ""

\* multipart.FileHeader: none of its fields carries a tag, and of the fields
\* that can be set only Filename is kept
multipartFileHeaderType == TStruct(<<Field("Filename", TString, NoTags)>>)
multipartFileHeaderPointerType == TPtr(multipartFileHeaderType)
multipartFileHeaderSliceType == TSlice(multipartFileHeaderType)
multipartFileHeaderPointerSliceType == TSlice(TPtr(multipartFileHeaderType))

FieldNames(t) == {t.fields[i].name : i \in 1..Len(t.fields)}
FieldNamed(t, n) == t.fields[CHOOSE i \in 1..Len(t.fields) : t.fields[i].name = n]

IntKinds == {"int", "int8", "int16", "int32", "int64"}
UintKinds == {"uint", "uint8", "uint16", "uint32", "uint64"}
FloatKinds == {"float32", "float64"}

\* the zero value of a type
RECURSIVE Zero(_)
Zero(t) ==
    CASE t.kind = "string" -> ""
      [] t.kind \in IntKinds \cup UintKinds -> 0
      [] t.kind \in FloatKinds -> [float |-> "0"]
      [] t.kind = "complex128" -> [complex |-> "0"]
      [] t.kind = "bool" -> FALSE
      [] t.kind \in {"ptr", "map", "interface"} -> [nil |-> TRUE]
      [] t.kind = "slice" -> <<>>
      [] t.kind = "struct" -> [n \in FieldNames(t) |-> Zero(FieldNamed(t, n).typ)]

\* reflect.MakeSlice(t, n, n)
MakeSlice(t, n) == [i \in 1..n |-> Zero(t.elem)]

\* reflect.Copy(dst, src) for Len(dst) >= Len(src)
Copy(dst, src) == [i \in 1..Len(dst) |-> IF i <= Len(src) THEN src[i] ELSE dst[i]]

\* a pointer to x
Ref(x) == [nil |-> FALSE, v |-> x]

\* the outcome of an operation on a destination: its value afterwards and the
\* error returned; a run-time panic is the error "panic: ..."
Ok(v) == [val |-> v, err |-> ""]
Fail(v, e) == [val |-> v, err |-> e]

ErrSyntaxInt == "strconv.ParseInt: invalid syntax or value out of range"
ErrSyntaxUint == "strconv.ParseUint: invalid syntax or value out of range"
ErrSyntaxFloat == "strconv.ParseFloat: invalid syntax or value out of range"
ErrSyntaxBool == "strconv.ParseBool: invalid syntax"
ErrUnknownType == "unknown type"
ErrNotStruct == "binding element must be a struct"
ErrAnonymousTag == "query/param/form tags are not allowed with anonymous struct field"
ErrFileHeader == "binding to multipart.FileHeader struct is not supported, use pointer to struct"
ErrUnsupportedMedia == "unsupported media type"
ErrInvalidIndex == "invalid array index"
ErrArraySize == "array size exceeds the maximum allowed size"
PanicIndex == "panic: index out of range"
IsPanic(e) == HasPrefix(e, "panic")

(***************************************************************************)
(* utils.go: the type coercer.                                              *)
(***************************************************************************)
\* field.SetInt(intVal) when err == nil, and return err
setParsedInt(r, field) == IF r.ok THEN Ok(Stored(r)) ELSE Fail(field, ErrSyntaxInt)

\* a coercion to a signed kind that parses at the widest bit size
setIntFieldWide(value, bitSize, field) ==
    setParsedInt(ParseInt(IF value = "" THEN "0" ELSE value, 64), field)

setIntField(value, bitSize, field) ==
    setParsedInt(ParseInt(IF value = "" THEN "0" ELSE value, bitSize), field)

setParsedUint(r, field) == IF r.ok THEN Ok(Stored(r)) ELSE Fail(field, ErrSyntaxUint)

\* a coercion to an unsigned kind that parses the empty string as it stands
setUintFieldAsIs(value, bitSize, field) ==
    setParsedUint(ParseUint(value, bitSize), field)

setUintField(value, bitSize, field) ==
    setParsedUint(ParseUint(IF value = "" THEN "0" ELSE value, bitSize), field)

setParsedFloat(r, field) == IF r.ok THEN Ok(r.f) ELSE Fail(field, ErrSyntaxFloat)

setFloatField(value, bitSize, field) ==
    setParsedFloat(ParseFloat(IF value = "" THEN "0.0" ELSE value, bitSize), field)

setParsedBool(r, field) == IF r.ok THEN Ok(r.b) ELSE Fail(field, ErrSyntaxBool)

setBoolField(value, field) ==
    setParsedBool(ParseBool(IF value = "" THEN "false" ELSE value), field)

\* the storage that unmarshalInputsToField and unmarshalInputToField give a
\* nil pointer before they look for a decoder
Materialize(t, field) ==
    IF t.kind = "ptr" /\ field.nil THEN Ref(Zero(t.elem)) ELSE field

\* the decoders that the pointer to a value of type t exposes
Methods(t) == IF "methods" \in DOMAIN t THEN t.methods ELSE {}

\* the type t with the methods ms declared on it
Named(t, ms) == t @@ [methods |-> ms]

\* the decoders of the destinations: each one records its call on the value
\* it is called on, after what the value holds, and fails on the value bad
Mark(name, s) == name \o "(" \o s \o ")"

MarkOn(t, x, mark) ==
    CASE t.kind = "slice" -> Append(x, mark)
      [] t.kind = "struct" -> [x EXCEPT !.At = @ \o mark]
      [] OTHER -> x \o mark

UnmarshalParams(t, x, params) ==
    IF \E i \in 1..Len(params) : params[i] = "bad"
    THEN Fail(x, "UnmarshalParams: bad")
    ELSE Ok(MarkOn(t, x, Mark("Params", Join(params, ","))))

UnmarshalParam(t, x, param) ==
    IF param = "bad" THEN Fail(x, "UnmarshalParam: bad")
    ELSE Ok(MarkOn(t, x, Mark("Param", param)))

UnmarshalText(t, x, text) ==
    IF text = "bad" THEN Fail(x, "UnmarshalText: bad")
    ELSE Ok(MarkOn(t, x, Mark("Text", text)))

\* the value that field.Addr().Interface() points to and its type, for a
\* field of type t that holds storage
Leaf(t) == IF t.kind = "ptr" THEN t.elem ELSE t

LeafVal(t, field) == IF t.kind = "ptr" THEN field.v ELSE field

\* (true, err) of a decoder that returned r, with the field afterwards
decoded(t, r) ==
    [ok |-> TRUE, val |-> IF t.kind = "ptr" THEN Ref(r.val) ELSE r.val, err |-> r.err]

undecoded(field) == [ok |-> FALSE, val |-> field, err |-> ""]

\* unmarshalInputsToField(valueKind, values, field): [ok, val, err], val
\* being the field afterwards
decodeInputs(t, values, field) ==
    IF "UnmarshalParams" \in Methods(Leaf(t))
    THEN decoded(t, UnmarshalParams(Leaf(t), LeafVal(t, field), values))
    ELSE undecoded(field)

unmarshalInputsToField(t, values, field) == decodeInputs(t, values, Materialize(t, field))

\* unmarshalInputToField(valueKind, val, field): [ok, val, err]
decodeInput(t, s, field) ==
    IF "UnmarshalParam" \in Methods(Leaf(t))
    THEN decoded(t, UnmarshalParam(Leaf(t), LeafVal(t, field), s))
    ELSE IF "UnmarshalText" \in Methods(Leaf(t))
    THEN decoded(t, UnmarshalText(Leaf(t), LeafVal(t, field), s))
    ELSE undecoded(field)

unmarshalInputToField(t, s, field) == decodeInput(t, s, Materialize(t, field))

\* the result r for the value behind a pointer, as the result for the pointer
wrapRef(isPtr, r) == IF isPtr THEN [val |-> Ref(r.val), err |-> r.err] ELSE r

\* the bitSize that setWithProperType passes for an integer kind
bitSizeOf(kind) ==
    CASE kind \in {"int", "uint"} -> 0
      [] kind \in {"int8", "uint8"} -> 8
      [] kind \in {"int16", "uint16"} -> 16
      [] kind \in {"int32", "uint32", "float32"} -> 32
      [] kind \in {"int64", "uint64", "float64"} -> 64

RECURSIVE setWithProperType(_, _, _)

\* the switch of setWithProperType
setByKind(t, s, field) ==
    CASE t.kind = "ptr" -> wrapRef(TRUE, setWithProperType(t.elem, s, field.v))
      [] t.kind \in IntKinds -> setIntField(s, bitSizeOf(t.kind), field)
      [] t.kind \in UintKinds -> setUintField(s, bitSizeOf(t.kind), field)
      [] t.kind \in FloatKinds -> setFloatField(s, bitSizeOf(t.kind), field)
      [] t.kind = "bool" -> setBoolField(s, field)
      [] t.kind = "string" -> Ok(s)
      [] OTHER -> Fail(field, ErrUnknownType)

\* setWithProperType(valueKind, val, structField), t being the type of
\* structField and t.kind the valueKind
setDecoded(t, s, single) ==
    IF single.ok THEN [val |-> single.val, err |-> single.err]
    ELSE setByKind(t, s, single.val)

setWithProperType(t, s, structField) ==
    setDecoded(t, s, unmarshalInputToField(t, s, structField))

(***************************************************************************)
(* utils.go: file fields.                                                   *)
(***************************************************************************)
\* isFieldMultipartFile(field): [ok, err]
isFieldMultipartFile(t) ==
    IF t \in {multipartFileHeaderPointerType, multipartFileHeaderSliceType,
              multipartFileHeaderPointerSliceType}
    THEN [ok |-> TRUE, err |-> ""]
    ELSE IF t = multipartFileHeaderType
    THEN [ok |-> TRUE, err |-> ErrFileHeader]
    ELSE [ok |-> FALSE, err |-> ""]

\* a file step that hands a list field the first file only
setMultipartFirstFile(t, structField, inputFieldName, files) ==
    LET fileHeaders == Lookup(files, inputFieldName)
    IN  IF Len(fileHeaders) = 0 THEN [ok |-> FALSE, val |-> structField]
        ELSE IF t = multipartFileHeaderPointerSliceType
        THEN [ok |-> TRUE, val |-> <<fileHeaders[1]>>]
        ELSE IF t = multipartFileHeaderSliceType
        THEN [ok |-> TRUE, val |-> <<fileHeaders[1].v>>]
        ELSE IF t = multipartFileHeaderPointerType
        THEN [ok |-> TRUE, val |-> fileHeaders[1]]
        ELSE [ok |-> FALSE, val |-> structField]

\* setMultipartFileHeaderTypes(structField, inputFieldName, files): [ok, val];
\* the file map holds pointers to the headers
setMultipartFileHeaderTypes(t, structField, inputFieldName, files) ==
    LET fileHeaders == Lookup(files, inputFieldName)
    IN  IF Len(fileHeaders) = 0 THEN [ok |-> FALSE, val |-> structField]
        ELSE IF t = multipartFileHeaderPointerSliceType
        THEN [ok |-> TRUE, val |-> fileHeaders]
        ELSE IF t = multipartFileHeaderSliceType
        THEN [ok |-> TRUE, val |-> [i \in 1..Len(fileHeaders) |-> fileHeaders[i].v]]
        ELSE IF t = multipartFileHeaderPointerType
        THEN [ok |-> TRUE, val |-> fileHeaders[1]]
        ELSE [ok |-> FALSE, val |-> structField]

(***************************************************************************)
(* utils.go: the collection builder, indexed notation.                      *)
(***************************************************************************)
\* growth that makes the longer slice without copying the elements over
growFresh(t, structValue, intIndex) ==
    IF Len(structValue) <= intIndex THEN MakeSlice(t, intIndex + 1) ELSE structValue

\* the slice that a round of the loop of handleArrayValues writes into
growTo(t, structValue, intIndex) ==
    IF Len(structValue) = 0 THEN MakeSlice(t, intIndex + 1)
    ELSE IF Len(structValue) <= intIndex
    THEN Copy(MakeSlice(t, intIndex + 1), structValue)
    ELSE structValue

\* the end of a round: structValue.Set(slice) unless the coercion r of the
\* element failed; the element is then changed only if it is one of
\* structValue itself
setIndex(structValue, slice, intIndex, r) ==
    IF r.err = "" THEN Ok([slice EXCEPT ![intIndex + 1] = r.val])
    ELSE IF Len(structValue) > intIndex
    THEN Fail([slice EXCEPT ![intIndex + 1] = r.val], r.err)
    ELSE Fail(structValue, r.err)

storeIndex(t, structValue, slice, intIndex, s) ==
    setIndex(structValue, slice, intIndex,
             setWithProperType(t.elem, s, slice[intIndex + 1]))

\* a round that does not compare the index with maxArraySize
handleArrayIndexUnchecked(t, structValue, idx, v, maxArraySize) ==
    IF ~idx.ok THEN Fail(structValue, ErrInvalidIndex)
    ELSE IF Negative(idx) \/ Len(v) = 0 THEN Fail(structValue, PanicIndex)
    ELSE storeIndex(t, structValue, growTo(t, structValue, idx.n), idx.n, v[1])

\* one round of the loop of handleArrayValues, for the entry (k, v) whose
\* key Atoi has turned into idx
handleArrayIndex(t, structValue, idx, v, maxArraySize) ==
    IF ~idx.ok THEN Fail(structValue, ErrInvalidIndex)
    ELSE IF Exceeds(idx, maxArraySize) THEN Fail(structValue, ErrArraySize)
    ELSE IF Negative(idx) \/ Len(v) = 0 THEN Fail(structValue, PanicIndex)
    ELSE storeIndex(t, structValue, growTo(t, structValue, idx.n), idx.n, v[1])

RECURSIVE handleArrayFrom(_, _, _, _, _, _)

handleArrayOn(t, r, values, i, inputFieldName, maxArraySize) ==
    IF r.err # "" THEN r
    ELSE handleArrayFrom(t, r.val, values, i, inputFieldName, maxArraySize)

handleArrayFrom(t, structValue, values, i, inputFieldName, maxArraySize) ==
    IF i > Len(values) THEN Ok(structValue)
    ELSE handleArrayOn(t,
                       handleArrayIndex(t, structValue, Atoi(values[i].k),
                                        values[i].v, maxArraySize),
                       values, i + 1, inputFieldName, maxArraySize)

handleArrayValues(t, structValue, values, inputFieldName, maxArraySize) ==
    IF t.kind = "slice"
    THEN handleArrayFrom(t, structValue, values, 1, inputFieldName, maxArraySize)
    ELSE Ok(structValue)

(***************************************************************************)
(* binder.go: the binder configuration.                                     *)
(***************************************************************************)
\* a bind order that reads the body before the path and the query
BodyFirstBindOrder == <<"BindBody", "BindPathParams", "BindQueryParams">>

\* the BindOrder that NewBinder installs
DefaultBindOrder == <<"BindPathParams", "BindQueryParams", "BindBody">>

NewBinder ==
    [ MapMatcher |-> MapMatcherRegexp,
      ArrayMatcher |-> ArrayMatcherRegexp,
      ArrayNotationMatcher |-> ArrayNotationRegexp,
      PathMatcher |-> PathMatcherRegexp,
      MaxArraySize |-> MaxArraySize,
      HeaderTagName |-> DefaultHeaderTagName,
      FormTagName |-> DefaultFormTagName,
      QueryTagName |-> DefaultQueryTagName,
      ParamTagName |-> DefaultParamTagName,
      BindOrder |-> DefaultBindOrder ]

(***************************************************************************)
(* binder.go: bindData.                                                     *)
(***************************************************************************)
\* a loop that stores the whole sequence of values whatever the element is
RECURSIVE bindMapWhole(_, _, _, _)
bindMapWhole(t, m, data, i) ==
    IF i > Len(data) THEN Ok([nil |-> FALSE, m |-> m])
    ELSE bindMapWhole(t, (data[i].k :> data[i].v) @@ m, data, i + 1)

\* the map destination: the loop over data from the i-th entry on; m is the
\* map built so far
RECURSIVE bindMapFrom(_, _, _, _)
bindMapFrom(t, m, data, i) ==
    IF i > Len(data) THEN Ok([nil |-> FALSE, m |-> m])
    ELSE LET k == data[i].k
             v == data[i].v
         IN  IF t.elem.kind \in {"string", "interface"}
             THEN IF Len(v) = 0 THEN Fail([nil |-> FALSE, m |-> m], PanicIndex)
                  ELSE bindMapFrom(t, (k :> v[1]) @@ m, data, i + 1)
             ELSE bindMapFrom(t, (k :> v) @@ m, data, i + 1)

\* the case-insensitive scan of the value lookup: the values of the first
\* key from the i-th on that equals inputFieldName ignoring case
RECURSIVE scanFold(_, _, _)
scanFold(data, inputFieldName, i) ==
    IF i > Len(data) THEN [exists |-> FALSE, inputValue |-> <<>>]
    ELSE IF EqualFold(data[i].k, inputFieldName)
    THEN [exists |-> TRUE, inputValue |-> data[i].v]
    ELSE scanFold(data, inputFieldName, i + 1)

\* a value lookup that scans for a key equal ignoring case without trying
\* the key as given first
lookupFoldOnly(data, inputFieldName) == scanFold(data, inputFieldName, 1)

\* the value lookup of a tagged field: [exists, inputValue]
lookupInput(data, inputFieldName) ==
    IF Has(data, inputFieldName)
    THEN [exists |-> TRUE, inputValue |-> Get(data, inputFieldName)]
    ELSE scanFold(data, inputFieldName, 1)

\* the flat list path: slice.Index(j) set for j from the i-th value on
RECURSIVE flatSliceFrom(_, _, _, _)

flatSliceOn(t, slice, r, inputValue, j) ==
    IF r.err # "" THEN Fail(slice, r.err)
    ELSE flatSliceFrom(t, [slice EXCEPT ![j] = r.val], inputValue, j + 1)

flatSliceFrom(t, slice, inputValue, j) ==
    IF j > Len(inputValue) THEN Ok(slice)
    ELSE flatSliceOn(t, slice, setWithProperType(t.elem, inputValue[j], slice[j]),
                     inputValue, j)

\* a flat path that stores the list as far as it has been filled
flatPartial(r, field) == r

\* the list built by the flat path replaces the field; after an error the
\* field keeps what it held
flatResult(r, field) == IF r.err # "" THEN Fail(field, r.err) ELSE r

\* the last steps of the loop body, on the field behind the pointer when
\* the field is one: the flat list path for a list, the coercion of the
\* first value otherwise
storeInput(target, targetField, inputValue) ==
    IF target.kind = "slice"
    THEN flatResult(flatSliceFrom(target, MakeSlice(target, Len(inputValue)),
                                  inputValue, 1),
                    targetField)
    ELSE setWithProperType(target, inputValue[1], targetField)

\* a loop body that goes on to the assignment after a decoder has returned
\* without an error
bindSingleAndStore(t, single, found) ==
    IF single.ok /\ single.err # "" THEN [val |-> single.val, err |-> single.err]
    ELSE wrapRef(t.kind = "ptr",
                 storeInput(IF t.kind = "ptr" THEN t.elem ELSE t,
                            IF t.kind = "ptr" THEN single.val.v ELSE single.val,
                            found.inputValue))

\* the loop body after the single-value decoders have returned single: the
\* pointer dereference and the assignment when none was exposed
bindSingle(t, single, found) ==
    IF single.ok THEN [val |-> single.val, err |-> single.err]
    ELSE wrapRef(t.kind = "ptr",
                 storeInput(IF t.kind = "ptr" THEN t.elem ELSE t,
                            IF t.kind = "ptr" THEN single.val.v ELSE single.val,
                            found.inputValue))

\* the loop body after the value lookup, for a field of type t on which
\* unmarshalInputsToField has returned multi
bindFound(t, multi, found) ==
    IF multi.ok THEN [val |-> multi.val, err |-> multi.err]
    ELSE IF Len(found.inputValue) = 0 THEN Fail(multi.val, PanicIndex)
    ELSE bindSingle(t, unmarshalInputToField(t, found.inputValue[1], multi.val), found)

unlessAbsent(found, structField, r) == IF found.exists THEN r ELSE Ok(structField)

\* the end of the loop body of bindData, from the value lookup on, for a
\* field of type t holding structField
bindValue(t, structField, found) ==
    unlessAbsent(found, structField,
                 bindFound(t, unmarshalInputsToField(t, found.inputValue, structField),
                           found))

\* bindFrom(b, t, v, data, tag, dataFiles, i) is, for i = 0, the call
\* b.bindData(destination, data, tag, dataFiles) with destination pointing
\* to a value v of type t and, for i > 0, its field loop from the i-th field
\* on: the value afterwards and the error returned
RECURSIVE bindFrom(_, _, _, _, _, _, _)

\* the matcher that projects the maps for a field of type t
matcherOf(b, t) ==
    CASE t.kind = "struct" -> b.ArrayNotationMatcher
      [] t.kind = "map" -> b.MapMatcher
      [] OTHER -> b.ArrayMatcher

\* the branch of the loop body on the kind of a tagged field, given the
\* projected maps: the recursive call for a struct or a map, the indexed
\* list path for a slice, nothing for another kind
bindProjected(b, t, structField, fieldData, fieldFiles, tag, inputFieldName) ==
    IF t.kind \in {"struct", "map"}
    THEN bindFrom(b, t, structField, fieldData, tag, fieldFiles, 0)
    ELSE handleArrayValues(t, structField, fieldData, inputFieldName, b.MaxArraySize)

\* a struct field is done after its branch (continue), a map or a slice
\* field goes on to the value lookup unless its branch returned an error
afterProjected(t, r, found) ==
    IF t.kind = "struct" \/ r.err # "" THEN r ELSE bindValue(t, r.val, found)

\* the file step of the loop body: [done, val, err]
bindFile(t, structField, hasFiles, isFile, fileSet) ==
    IF hasFiles /\ isFile.err # ""
    THEN [done |-> TRUE, val |-> structField, err |-> isFile.err]
    ELSE IF hasFiles /\ isFile.ok /\ fileSet.ok
    THEN [done |-> TRUE, val |-> fileSet.val, err |-> ""]
    ELSE [done |-> FALSE, val |-> structField, err |-> ""]

afterFile(file, r) == IF file.done THEN [val |-> file.val, err |-> file.err] ELSE r

\* the loop body for a field that carries the tag inputFieldName
bindTagged(b, t, structField, data, tag, dataFiles, inputFieldName) ==
    afterFile(
        bindFile(t, structField, Len(dataFiles) > 0, isFieldMultipartFile(t),
                 setMultipartFileHeaderTypes(t, structField, inputFieldName, dataFiles)),
        afterProjected(
            t,
            bindProjected(b, t, structField,
                          trimData(inputFieldName, data, matcherOf(b, t),
                                   DefaultDeepObjectSeparator),
                          trimFileFields(inputFieldName, dataFiles, matcherOf(b, t),
                                         DefaultDeepObjectSeparator),
                          tag, inputFieldName),
            lookupInput(data, inputFieldName)))

\* structField.Addr().Interface().(BindUnmarshaler) for a field of type t
isBindUnmarshaler(t) == "UnmarshalParam" \in Methods(t)

\* a loop body that reads a field without a tag under its own name
bindFieldByName(b, f, structField, data, tag, dataFiles) ==
    IF TagGet(f, tag) = "" /\ f.typ.kind = "struct" /\ ~isBindUnmarshaler(f.typ)
    THEN bindFrom(b, f.typ, structField, data, tag, dataFiles, 0)
    ELSE bindTagged(b, f.typ, structField, data, tag, dataFiles,
                    IF TagGet(f, tag) = "" THEN f.name ELSE TagGet(f, tag))

\* a loop body that binds an anonymous struct field with a tag as it binds
\* a named one
bindFieldAnonymousTagged(b, f, structField, data, tag, dataFiles) ==
    IF TagGet(f, tag) = ""
    THEN IF f.typ.kind = "struct" /\ ~isBindUnmarshaler(f.typ)
         THEN bindFrom(b, f.typ, structField, data, tag, dataFiles, 0)
         ELSE Ok(structField)
    ELSE bindTagged(b, f.typ, structField, data, tag, dataFiles, TagGet(f, tag))

\* the body of the field loop for field f holding structField: the field
\* afterwards and the error that ends the loop
bindField(b, f, structField, data, tag, dataFiles) ==
    IF f.anon /\ f.typ.kind = "struct" /\ TagGet(f, tag) # ""
    THEN Fail(structField, ErrAnonymousTag)
    ELSE IF TagGet(f, tag) = ""
    THEN IF f.typ.kind = "struct" /\ ~isBindUnmarshaler(f.typ)
         THEN bindFrom(b, f.typ, structField, data, tag, dataFiles, 0)
         ELSE Ok(structField)
    ELSE bindTagged(b, f.typ, structField, data, tag, dataFiles, TagGet(f, tag))

\* the first steps of the loop body: an anonymous field that is a pointer is
\* replaced by what it points to, and a field that cannot be set (the Elem
\* of a nil pointer, a field whose name is not exported) is passed over
CanSet(f) == IsUpper(Char(f.name, 1))

unwrapAnonymous(f, structField) ==
    IF f.anon /\ f.typ.kind = "ptr"
    THEN IF structField.nil
         THEN [f |-> f, field |-> structField, ptr |-> FALSE, settable |-> FALSE]
         ELSE [f |-> [f EXCEPT !.typ = f.typ.elem], field |-> structField.v,
               ptr |-> TRUE, settable |-> TRUE]
    ELSE [f |-> f, field |-> structField, ptr |-> FALSE, settable |-> CanSet(f)]

bindSettable(b, u, data, tag, dataFiles) ==
    IF u.settable
    THEN wrapRef(u.ptr, bindField(b, u.f, u.field, data, tag, dataFiles))
    ELSE Ok(u.field)

\* the field f of v set to the outcome r of its loop body
fieldDone(v, f, r) == [val |-> [v EXCEPT ![f.name] = r.val], err |-> r.err]

\* the destination map of bindData: nil unless the element type is one of
\* string, interface{} and []string
mapSupported(t) ==
    \/ t.elem.kind = "slice" /\ t.elem.elem.kind = "string"
    \/ t.elem.kind \in {"string", "interface"}

\* a loop that binds the fields after a failing one and returns the first
\* error at the end
loopOnAll(b, t, r, data, tag, dataFiles, i) ==
    IF r.err # "" THEN Fail(bindFrom(b, t, r.val, data, tag, dataFiles, i).val, r.err)
    ELSE bindFrom(b, t, r.val, data, tag, dataFiles, i)

\* the loop goes on to the i-th field unless the field before it failed
loopOn(b, t, r, data, tag, dataFiles, i) ==
    IF r.err # "" THEN r ELSE bindFrom(b, t, r.val, data, tag, dataFiles, i)

bindFrom(b, t, v, data, tag, dataFiles, i) ==
    IF i = 0
    THEN IF Len(data) = 0 /\ Len(dataFiles) = 0 THEN Ok(v)
         ELSE IF t.kind = "map"
         THEN IF ~mapSupported(t) THEN Ok(v)
              ELSE bindMapFrom(t, IF v.nil THEN <<>> ELSE v.m, data, 1)
         ELSE IF t.kind # "struct"
         THEN IF tag \in {b.ParamTagName, b.QueryTagName, b.HeaderTagName}
              THEN Ok(v)
              ELSE Fail(v, ErrNotStruct)
         ELSE bindFrom(b, t, v, data, tag, dataFiles, 1)
    ELSE IF i > Len(t.fields) THEN Ok(v)
    ELSE loopOn(b, t,
                fieldDone(v, t.fields[i],
                          bindSettable(b, unwrapAnonymous(t.fields[i],
                                                          v[t.fields[i].name]),
                                       data, tag, dataFiles)),
                data, tag, dataFiles, i + 1)

bindData(b, t, v, data, tag, dataFiles) == bindFrom(b, t, v, data, tag, dataFiles, 0)

(***************************************************************************)
(* binder.go: BindableRequest.  A request r is a record                     *)
(*   pattern, pathv   GetPathPattern() and the values GetPathValue returns  *)
(*   query, headers   GetQuery() and GetHeaders()                           *)
(*   clen             GetContentLength()                                    *)
(*   form, formErr    what GetForm() returns                                *)
(*   mpValue, mpFile, mpErr   what GetMultipartForm() returns               *)
(*   body             what the body decodes to: [ok, obj], obj a record of  *)
(*                    the members of the document                           *)
(***************************************************************************)
GetPathValue(r, name) == IF name \in DOMAIN r.pathv THEN r.pathv[name] ELSE ""

RECURSIVE PathValuesFrom(_, _, _, _)
PathValuesFrom(r, names, values, i) ==
    IF i > Len(names) THEN values
    ELSE PathValuesFrom(r, names, Put(values, names[i], <<GetPathValue(r, names[i])>>),
                        i + 1)

GetPathParams(b, r) ==
    LET names == FindAllStringSubmatch(r.pattern, b.PathMatcher)
    IN  IF r.pattern = "" \/ Len(names) = 0 THEN <<>>
        ELSE PathValuesFrom(r, names, <<>>, 1)

GetQueryParams(b, r) == r.query

(***************************************************************************)
(* The body delegates.  encoding/json and encoding/xml are outside the     *)
(* repository: Deserialize is modelled by its effect on a struct, each     *)
(* string field whose key under the delegate's tag is a member of the      *)
(* document receives that member, and a document that does not parse is an *)
(* error that leaves the destination alone; on a map of strings or of       *)
(* interface{} the JSON delegate stores the members, and any other          *)
(* destination is an error.                                                 *)
(***************************************************************************)
Deserialize(tagName, r, t, v) ==
    IF ~r.body.ok THEN Fail(v, tagName \o ": cannot decode the body")
    ELSE IF t.kind = "struct"
    THEN Ok([n \in FieldNames(t) |->
                LET f == FieldNamed(t, n)
                IN  IF f.typ.kind = "string" /\ TagGet(f, tagName) \in DOMAIN r.body.obj
                    THEN r.body.obj[TagGet(f, tagName)]
                    ELSE v[n]])
    ELSE IF t.kind = "map" /\ tagName = "json" /\ t.elem.kind \in {"string", "interface"}
    THEN Ok([nil |-> FALSE, m |-> r.body.obj @@ (IF v.nil THEN <<>> ELSE v.m)])
    ELSE Fail(v, tagName \o ": cannot decode into the destination")

(***************************************************************************)
(* binder.go: the entry points of DefaultBinder.  Each gives                *)
(* [val, err, dlg]: the destination afterwards, the error returned and the *)
(* delegate or form parser that was invoked ("none" when none was).        *)
(***************************************************************************)
Out(r, dlgName) == [val |-> r.val, err |-> r.err, dlg |-> dlgName]

BindPathParams(b, r, t, v) ==
    Out(bindData(b, t, v, GetPathParams(b, r), b.ParamTagName, <<>>), "none")

BindQueryParams(b, r, t, v) ==
    Out(bindData(b, t, v, GetQueryParams(b, r), b.QueryTagName, <<>>), "none")

\* a BindBody that does not look at the content length
BindBodyAnyLength(b, r, t, v) ==
    LET mediatype == TrimSpace(CutBefore(ValuesGet(r.headers, HeaderContentType), ";"))
    IN  IF mediatype = MIMEApplicationJSON
        THEN Out(Deserialize("json", r, t, v), "json")
        ELSE IF mediatype \in {MIMEApplicationXML, MIMETextXML}
        THEN Out(Deserialize("xml", r, t, v), "xml")
        ELSE IF mediatype = MIMEApplicationForm
        THEN IF r.formErr # "" THEN Out(Fail(v, r.formErr), "form")
             ELSE Out(bindData(b, t, v, r.form, b.FormTagName, <<>>), "form")
        ELSE IF mediatype = MIMEMultipartForm
        THEN IF r.mpErr # "" THEN Out(Fail(v, r.mpErr), "multipart")
             ELSE Out(bindData(b, t, v, r.mpValue, b.FormTagName, r.mpFile), "multipart")
        ELSE Out(Fail(v, ErrUnsupportedMedia), "none")

BindBody(b, r, t, v) ==
    LET base == CutBefore(ValuesGet(r.headers, HeaderContentType), ";")
        mediatype == TrimSpace(base)
    IN  IF r.clen <= 0 THEN Out(Ok(v), "none")
        ELSE IF mediatype = MIMEApplicationJSON
        THEN Out(Deserialize("json", r, t, v), "json")
        ELSE IF mediatype \in {MIMEApplicationXML, MIMETextXML}
        THEN Out(Deserialize("xml", r, t, v), "xml")
        ELSE IF mediatype = MIMEApplicationForm
        THEN IF r.formErr # "" THEN Out(Fail(v, r.formErr), "form")
             ELSE Out(bindData(b, t, v, r.form, b.FormTagName, <<>>), "form")
        ELSE IF mediatype = MIMEMultipartForm
        THEN IF r.mpErr # "" THEN Out(Fail(v, r.mpErr), "multipart")
             ELSE Out(bindData(b, t, v, r.mpValue, b.FormTagName, r.mpFile), "multipart")
        ELSE Out(Fail(v, ErrUnsupportedMedia), "none")

BindHeaders(b, r, t, v) ==
    Out(bindData(b, t, v, r.headers, b.FormTagName, <<>>), "none")

\* a BindFunc of b.BindOrder, called by name
CallBindFunc(name, b, r, t, v) ==
    CASE name = "BindPathParams" -> BindPathParams(b, r, t, v)
      [] name = "BindQueryParams" -> BindQueryParams(b, r, t, v)
      [] name = "BindBody" -> BindBody(b, r, t, v)
      [] name = "BindHeaders" -> BindHeaders(b, r, t, v)

\* the loop of Bind from the i-th BindFunc on; stages lists the functions
\* called so far and dlgName the delegate invoked so far
RECURSIVE BindFrom(_, _, _, _, _, _, _)
\* the loop body after bindFunc has returned res: now are the BindFuncs
\* called, this one included
BindStep(b, r, t, i, now, dlgName, res) ==
    IF res.err # ""
    THEN [val |-> res.val, err |-> res.err, ran |-> now,
          dlg |-> IF res.dlg # "none" THEN res.dlg ELSE dlgName]
    ELSE BindFrom(b, r, t, res.val, i + 1, now,
                  IF res.dlg # "none" THEN res.dlg ELSE dlgName)

BindFrom(b, r, t, v, i, stages, dlgName) ==
    IF i > Len(b.BindOrder)
    THEN [val |-> v, err |-> "", dlg |-> dlgName, ran |-> stages]
    ELSE BindStep(b, r, t, i, Append(stages, b.BindOrder[i]), dlgName,
                  CallBindFunc(b.BindOrder[i], b, r, t, v))

Bind(b, r, t, v) == BindFrom(b, r, t, v, 1, <<>>, "none")

(***************************************************************************)
(* binder.go: the functions of the package in the revision whose Binder     *)
(* interface has the one method Bind.  BindPath, BindQuery and BindHeader   *)
(* (BindBody, BindForm and BindMultipartForm read alike) each return        *)
(* GetBinder().Bind(r, i); http_binder.go of that revision passes           *)
(* NewHttpBindableRequest(r) to them as BindHttpPath, BindHttpQuery and     *)
(* BindHttpHeader.  In the other revision the functions of the package      *)
(* call the method of their own name, as the steps of the model do.         *)
(***************************************************************************)
BindPath(r, t, v) == Bind(NewBinder, r, t, v)

BindQuery(r, t, v) == Bind(NewBinder, r, t, v)

BindHeader(r, t, v) == Bind(NewBinder, r, t, v)

(***************************************************************************)
(* The destinations and the requests of the model.                          *)
(***************************************************************************)
E(k, v) == [k |-> k, v |-> v]

EmptyRequest ==
    [ pattern |-> "", pathv |-> [name |-> "a"], query |-> <<>>, headers |-> <<>>,
      clen |-> 0, form |-> <<>>, formErr |-> "", mpValue |-> <<>>, mpFile |-> <<>>,
      mpErr |-> "", body |-> [ok |-> TRUE, obj |-> <<>>] ]

ContentType(c) == <<E(HeaderContentType, <<c>>)>>

\* type User struct {
\*     Name        string `param:"name" query:"name" form:"name" json:"name" xml:"name"`
\*     Age         int    `query:"age" form:"age"`
\*     Email       string `query:"email" form:"email" json:"email" xml:"email"`
\*     HeaderValue string `header:"X-Header-Value"`
\* }
UserType ==
    TStruct(<<
        Field("Name", TString, [param |-> "name", query |-> "name", form |-> "name",
                                json |-> "name", xml |-> "name"]),
        Field("Age", TInt, [query |-> "age", form |-> "age"]),
        Field("Email", TString, [query |-> "email", form |-> "email",
                                 json |-> "email", xml |-> "email"]),
        Field("HeaderValue", TString, [header |-> "X-Header-Value"]) >>)

UserPatterns == {"", "/users/{name}"}

UserQueries ==
    { <<>>,
      <<E("name", <<"b">>)>>,
      <<E("NAME", <<"B">>), E("age", <<"7">>)>>,
      <<E("name", <<"b">>), E("age", <<"x">>), E("email", <<"q@q">>)>> }

\* the bodies: a content type, a length and what each reader of the body gives
UserBodies ==
    { [ctype |-> MIMEApplicationJSON, clen |-> 0, ok |-> TRUE, form |-> <<>>],
      [ctype |-> MIMEApplicationJSON, clen |-> 25, ok |-> TRUE, form |-> <<>>],
      [ctype |-> MIMEApplicationJSON, clen |-> 25, ok |-> FALSE, form |-> <<>>],
      [ctype |-> MIMEApplicationForm, clen |-> 25, ok |-> FALSE,
       form |-> <<E("name", <<"c">>), E("age", <<"30">>)>>],
      [ctype |-> MIMEApplicationForm, clen |-> 25, ok |-> FALSE,
       form |-> <<E("name", <<"c">>), E("age", <<"3o">>), E("email", <<"f@f">>)>>],
      [ctype |-> MIMEMultipartForm, clen |-> 25, ok |-> FALSE,
       form |-> <<E("email", <<"m@m">>), E("name", <<"c">>)>>] }

UserContentTypes ==
    { "application/json; charset=utf-8", " application/json ", "application/jsonx",
      "application/xml", "text/xml;q=1", "application/x-www-form-urlencoded ; a=b",
      "multipart/form-data; boundary=xyz", "text/plain", "", ";application/json" }

UserHeaders ==
    { <<E("X-Header-Value", <<"v", "w">>)>>,
      <<E("x-header-value", <<"v">>)>>,
      <<E("Name", <<"hn">>), E("X-Header-Value", <<"v">>)>> }

UserRequests ==
    { [EmptyRequest EXCEPT !.pattern = p, !.query = q,
                           !.headers = ContentType(bd.ctype), !.clen = bd.clen,
                           !.form = bd.form, !.mpValue = bd.form,
                           !.body = [ok |-> bd.ok, obj |-> [name |-> "c"]]] :
        p \in UserPatterns, q \in UserQueries, bd \in UserBodies }
    \cup
    { [EmptyRequest EXCEPT !.headers = ContentType(c), !.clen = n,
                           !.form = <<E("name", <<"uf">>)>>,
                           !.mpValue = <<E("name", <<"um">>)>>,
                           !.body = [ok |-> TRUE, obj |-> [name |-> "uj"]]] :
        c \in UserContentTypes, n \in {-1, 0, 25} }
    \cup
    { [EmptyRequest EXCEPT !.headers = h] : h \in UserHeaders }

\* strconv.Itoa for n >= 0
RECURSIVE Itoa(_)
Itoa(n) ==
    IF n < 10 THEN Char("0123456789", n + 1)
    ELSE Itoa(n \div 10) \o Char("0123456789", (n % 10) + 1)

\* the key name[i] of the indexed notation
IndexKey(name, i) == name \o "[" \o Itoa(i) \o "]"

\* a request whose body is the urlencoded form f
WithForm(r, f) ==
    [r EXCEPT !.headers = ContentType(MIMEApplicationForm), !.clen = 25, !.form = f]

\* a request whose body is the multipart form of values f and files files
WithMultipart(r, f, files) ==
    [r EXCEPT !.headers = ContentType(MIMEMultipartForm \o "; boundary=xyz"),
              !.clen = 25, !.mpValue = f, !.mpFile = files]

WithQuery(r, q) == [r EXCEPT !.query = q]

\* type Lists struct {
\*     T []int             `query:"t" form:"t"`
\*     M map[string]string `query:"m" form:"m"`
\*     S string            `query:"s" form:"s"`
\* }
ListsType ==
    TStruct(<<
        Field("T", TSlice(TInt), [query |-> "t", form |-> "t"]),
        Field("M", TMap(TString), [query |-> "m", form |-> "m"]),
        Field("S", TString, [query |-> "s", form |-> "s"]) >>)

\* the sources of the list field: the same keys in the orders that range may
\* take, indices up to and above MaxArraySize, values that do not coerce,
\* the flat notation and an index that is no number
ListSources ==
    { <<E(IndexKey("t", 0), <<"1">>)>>,
      <<E(IndexKey("t", 1), <<"2">>)>>,
      <<E(IndexKey("t", 0), <<"1">>), E(IndexKey("t", 2), <<"5", "6">>)>>,
      <<E(IndexKey("t", 2), <<"5", "6">>), E(IndexKey("t", 0), <<"1">>)>>,
      <<E(IndexKey("t", 3), <<"4">>), E(IndexKey("t", 1), <<"-2">>),
        E(IndexKey("t", 2), <<"">>)>>,
      <<E(IndexKey("t", 1), <<"-2">>), E(IndexKey("t", 2), <<"">>),
        E(IndexKey("t", 3), <<"4">>)>>,
      <<E(IndexKey("t", 0), <<"1">>), E(IndexKey("t", 1), <<"x">>)>>,
      <<E(IndexKey("t", 1), <<"x">>), E(IndexKey("t", 0), <<"1">>)>>,
      <<E(IndexKey("t", MaxArraySize), <<"9">>)>>,
      <<E(IndexKey("t", MaxArraySize + 1), <<"9">>)>>,
      <<E(IndexKey("t", 0), <<"1">>), E(IndexKey("t", MaxArraySize + 1), <<"9">>)>>,
      <<E(IndexKey("t", MaxArraySize + 1), <<"9">>), E(IndexKey("t", 0), <<"1">>)>>,
      <<E("t", <<"7", "8">>)>>,
      <<E("t", <<"7">>), E(IndexKey("t", 2), <<"3">>)>>,
      <<E("t", <<"7", "8">>), E(IndexKey("t", 0), <<"3">>)>>,
      <<E(IndexKey("t", 0), <<"3">>), E("t", <<"7", "8">>)>>,
      <<E("t.x", <<"1">>)>>,
      <<E("t.abc", <<"1">>)>>,
      <<E("t[abc]", <<"1">>)>>,
      <<E("t[abc]", <<"1">>), E(IndexKey("t", 0), <<"2">>)>>,
      <<E("t[0][1]", <<"1">>)>>,
      <<E("m[a]", <<"1">>)>>,
      <<E("m[b]", <<"2">>), E("s", <<"q">>)>>,
      <<E("s", <<"r">>)>> }

\* the requests that carry a query and a form for the same field
ListPairs ==
    { <<<<E(IndexKey("t", 0), <<"1">>)>>, <<E(IndexKey("t", 1), <<"2">>)>>>>,
      <<<<E(IndexKey("t", 2), <<"5">>)>>, <<E(IndexKey("t", 0), <<"1">>)>>>>,
      <<<<E("t", <<"7", "8">>)>>, <<E(IndexKey("t", 0), <<"1">>)>>>>,
      <<<<E(IndexKey("t", 1), <<"2">>)>>, <<E("t", <<"7">>)>>>>,
      <<<<E("m[a]", <<"1">>)>>, <<E("m[b]", <<"2">>)>>>>,
      <<<<E("m[a]", <<"1">>)>>, <<E("m[a]", <<"3">>)>>>>,
      <<<<E("s", <<"q">>)>>, <<E("s", <<"r">>)>>>>,
      <<<<E("s", <<"q">>)>>, <<E(IndexKey("t", 0), <<"1">>)>>>> }

ListsRequests ==
    { WithQuery(EmptyRequest, q) : q \in ListSources }
    \cup { WithForm(EmptyRequest, f) : f \in ListSources }
    \cup { WithForm(WithQuery(EmptyRequest, p[1]), p[2]) : p \in ListPairs }

\* the map destinations: map[string]string, map[string]interface{},
\* map[string][]string and, not supported, map[string]int
MapTypes == {TMap(TString), TMap(TInterface), TMap(TSlice(TString)), TMap(TInt)}

\* a destination that is neither a struct nor a map: *int
ScalarTypes == {TInt}

MapSources ==
    { <<>>,
      <<E("a", <<"1", "2">>), E("b", <<"x">>)>>,
      <<E("b", <<"x">>), E("a", <<"1", "2">>)>>,
      <<E("c", <<"3">>)>>,
      <<E("a", <<"9">>)>> }

MapRequests ==
    { WithForm(WithQuery(EmptyRequest, q), f) : q \in MapSources, f \in MapSources }
    \cup { WithMultipart(EmptyRequest, f, <<>>) : f \in MapSources }
    \cup { [EmptyRequest EXCEPT !.pattern = "/m/{id}/{kind}",
                                !.pathv = [id |-> "7", kind |-> "k"], !.query = q] :
             q \in MapSources }
    \cup { [EmptyRequest EXCEPT !.headers = ContentType(MIMEApplicationJSON),
                                !.clen = 25,
                                !.body = [ok |-> TRUE, obj |-> [name |-> "c"]]] }

\* type Record struct {
\*     A     int `query:"a" form:"a"`
\*     Plain string
\*     In    struct {
\*         S string `query:"s" form:"s"`
\*         U string
\*     }
\*     Nest  struct {
\*         X int `query:"x" form:"x"`
\*         Y int `query:"y" form:"y"`
\*         U string
\*     } `query:"nest" form:"nest"`
\*     Z     int `query:"z" form:"z"`
\* }
RecordType ==
    TStruct(<<
        Field("A", TInt, [query |-> "a", form |-> "a"]),
        Field("Plain", TString, NoTags),
        Field("In", TStruct(<<Field("S", TString, [query |-> "s", form |-> "s"]),
                              Field("U", TString, NoTags)>>), NoTags),
        Field("Nest", TStruct(<<Field("X", TInt, [query |-> "x", form |-> "x"]),
                                Field("Y", TInt, [query |-> "y", form |-> "y"]),
                                Field("U", TString, NoTags)>>),
              [query |-> "nest", form |-> "nest"]),
        Field("Z", TInt, [query |-> "z", form |-> "z"]) >>)

\* the values a source gives a key of the record: none, one that coerces
\* and, for the integer fields, one that does not
RecordSources ==
    { <<>>,
      <<E("a", <<"1">>), E("s", <<"p">>), E("nest.x", <<"2">>), E("nest.y", <<"3">>),
        E("z", <<"4">>)>>,
      <<E("z", <<"4">>), E("nest.y", <<"3">>), E("nest.x", <<"2">>), E("s", <<"p">>),
        E("a", <<"1">>)>>,
      <<E("a", <<"bad">>), E("s", <<"p">>), E("z", <<"4">>)>>,
      <<E("a", <<"1">>), E("s", <<"p">>), E("nest.x", <<"bad">>), E("nest.y", <<"3">>),
        E("z", <<"4">>)>>,
      <<E("a", <<"5">>), E("s", <<"q">>), E("nest.x", <<"6">>), E("nest.y", <<"bad">>),
        E("z", <<"4">>)>>,
      <<E("a", <<"5">>), E("nest.x", <<"6">>), E("z", <<"bad">>), E("s", <<"q">>)>>,
      <<E("nest.y", <<"bad">>), E("nest.x", <<"bad">>), E("a", <<"7">>)>>,
      <<E("Plain", <<"v">>), E("plain", <<"w">>), E("U", <<"u">>), E("u", <<"u">>),
        E("In", <<"i">>), E("in.s", <<"j">>), E("nest.U", <<"n">>),
        E("nest.u", <<"n">>)>>,
      <<E("Plain", <<"v">>), E("U", <<"u">>), E("s", <<"p">>), E("nest.U", <<"n">>),
        E("nest.y", <<"8">>)>>,
      <<E("nest[x]", <<"9">>), E("NEST.Y", <<"1">>), E("S", <<"t">>)>> }

RecordPairs ==
    { <<<<E("a", <<"1">>), E("s", <<"p">>)>>, <<E("a", <<"2">>), E("z", <<"4">>)>>>>,
      <<<<E("a", <<"bad">>), E("s", <<"p">>)>>, <<E("a", <<"2">>), E("z", <<"4">>)>>>>,
      <<<<E("a", <<"1">>), E("z", <<"bad">>)>>, <<E("a", <<"2">>), E("z", <<"4">>)>>>>,
      <<<<E("a", <<"1">>), E("s", <<"p">>)>>, <<E("a", <<"2">>), E("z", <<"bad">>)>>>> }

RecordRequests ==
    { WithQuery(EmptyRequest, q) : q \in RecordSources }
    \cup { WithForm(EmptyRequest, f) : f \in RecordSources }
    \cup { WithForm(WithQuery(EmptyRequest, p[1]), p[2]) : p \in RecordPairs }

\* type Upload struct {
\*     Title string               `form:"title"`
\*     File  multipart.FileHeader `form:"file"`
\*     After string               `form:"after"`
\* }
\* and the same with File *multipart.FileHeader
UploadType ==
    TStruct(<<
        Field("Title", TString, [form |-> "title"]),
        Field("File", multipartFileHeaderType, [form |-> "file"]),
        Field("After", TString, [form |-> "after"]) >>)

UploadPtrType ==
    TStruct(<<
        Field("Title", TString, [form |-> "title"]),
        Field("File", multipartFileHeaderPointerType, [form |-> "file"]),
        Field("After", TString, [form |-> "after"]) >>)

\* the same with File []multipart.FileHeader and with File []*multipart.FileHeader
UploadSliceType ==
    TStruct(<<
        Field("Title", TString, [form |-> "title"]),
        Field("File", multipartFileHeaderSliceType, [form |-> "file"]),
        Field("After", TString, [form |-> "after"]) >>)

UploadPtrSliceType ==
    TStruct(<<
        Field("Title", TString, [form |-> "title"]),
        Field("File", multipartFileHeaderPointerSliceType, [form |-> "file"]),
        Field("After", TString, [form |-> "after"]) >>)

FileTypes == {UploadType, UploadPtrType, UploadSliceType, UploadPtrSliceType}

\* an uploaded file: a pointer to a multipart.FileHeader
Upload(filename) == Ref([Filename |-> filename])

FileValues ==
    { <<>>,
      <<E("title", <<"doc">>)>>,
      <<E("title", <<"doc">>), E("after", <<"z">>)>>,
      <<E("after", <<"z">>), E("file", <<"text">>)>>,
      <<E("file.Filename", <<"f">>), E("title", <<"doc">>)>> }

FileMaps ==
    { <<>>,
      <<E("file", <<Upload("a.txt")>>)>>,
      <<E("file", <<Upload("a.txt"), Upload("b.txt")>>)>>,
      <<E("other", <<Upload("c.txt")>>)>>,
      <<E("other", <<Upload("c.txt")>>), E("file", <<Upload("a.txt")>>)>> }

FileRequests ==
    { WithMultipart(EmptyRequest, f, files) : f \in FileValues, files \in FileMaps }
    \cup { WithForm(EmptyRequest, f) : f \in FileValues }
    \cup { [WithMultipart(EmptyRequest, <<E("title", <<"doc">>)>>, <<>>)
               EXCEPT !.mpErr = "multipart: NextPart: EOF"],
           [WithForm(EmptyRequest, <<E("title", <<"doc">>)>>)
               EXCEPT !.formErr = "invalid URL escape"] }

(***************************************************************************)
(* http_binder.go: HttpBindableRequest, the BindableRequest made of a       *)
(* *http.Request.  An http request h is a record                            *)
(*   query    the values of the query of the URL                            *)
(*   ctype    the Content-Type header                                       *)
(*   values   the values that the body carries, as a urlencoded or as a     *)
(*            multipart form according to ctype                             *)
(* net/http is outside the repository: Request.ParseForm fills r.Form with  *)
(* the values of a urlencoded body followed by the values of the query of   *)
(* the URL, and Request.ParseMultipartForm fills r.MultipartForm.Value with *)
(* the values of a multipart body only.                                     *)
(***************************************************************************)
\* copyValues(dst, src) of net/http: dst.Add(k, value) for every value of src
RECURSIVE copyValues(_, _)
copyValues(dst, src) ==
    IF Len(src) = 0 THEN dst
    ELSE copyValues(Put(dst, Head(src).k, Lookup(dst, Head(src).k) \o Head(src).v),
                    Tail(src))

IsFormPost(h) == h.ctype = MIMEApplicationForm

IsMultipartPost(h) == HasPrefix(h.ctype, MIMEMultipartForm)

\* a GetForm that returns the values of the body only
GetFormOfBody(h) == IF IsFormPost(h) THEN h.values ELSE <<>>

\* r.Form after r.ParseForm()
GetForm(h) == copyValues(IF IsFormPost(h) THEN h.values ELSE <<>>, h.query)

\* r.MultipartForm.Value after r.ParseMultipartForm(maxBodySize), the field
\* being read after the call has returned
GetMultipartForm(h) == IF IsMultipartPost(h) THEN h.values ELSE <<>>

ErrNotMultipart == "request Content-Type isn't multipart/form-data"

NewHttpBindableRequest(h) ==
    [EmptyRequest EXCEPT !.query = h.query,
                         !.headers = ContentType(h.ctype),
                         !.clen = 25,
                         !.form = GetForm(h),
                         !.mpValue = GetMultipartForm(h),
                         !.mpErr = IF IsMultipartPost(h) THEN "" ELSE ErrNotMultipart]

\* type TestStruct struct {
\*     Name  string `json:"name" xml:"name" form:"name"`
\*     Age   int    `json:"age" xml:"age" form:"age"`
\*     Email string `json:"email" xml:"email" form:"email"`
\* }
TestStructType ==
    TStruct(<<
        Field("Name", TString, [json |-> "name", xml |-> "name", form |-> "name"]),
        Field("Age", TInt, [json |-> "age", xml |-> "age", form |-> "age"]),
        Field("Email", TString, [json |-> "email", xml |-> "email", form |-> "email"]) >>)

PostValues ==
    { <<>>,
      <<E("name", <<"John Doe">>), E("age", <<"3">>), E("email", <<"john@example.com">>)>>,
      <<E("age", <<"3", "4">>), E("name", <<"c", "d">>)>>,
      <<E("name", <<"c">>)>>,
      <<E("name", <<"c">>), E("age", <<"x">>)>> }

PostQueries ==
    { <<>>, <<E("age", <<"7">>)>>, <<E("name", <<"q">>), E("email", <<"q@q">>)>> }

HttpPosts ==
    { [query |-> q, ctype |-> c, values |-> f] :
        q \in PostQueries, f \in PostValues,
        c \in {MIMEApplicationForm, MIMEMultipartForm \o "; boundary=xyz"} }

HttpRequests == { NewHttpBindableRequest(h) : h \in HttpPosts }

\* type Base struct {
\*     ID string `query:"id" form:"id"`
\* }
\* type Tagged struct {
\*     Name  string `query:"name" form:"name"`
\*     Base         `query:"base" form:"base"`
\*     After string `query:"after" form:"after"`
\* }
\* the same with *Base, and the same with Base carrying no tag
BaseType == TStruct(<<Field("ID", TString, [query |-> "id", form |-> "id"])>>)

EmbedFields(base, tags) ==
    << Field("Name", TString, [query |-> "name", form |-> "name"]),
       Embedded("Base", base, tags),
       Field("After", TString, [query |-> "after", form |-> "after"]) >>

EmbedTaggedType == TStruct(EmbedFields(BaseType, [query |-> "base", form |-> "base"]))

EmbedTaggedPtrType ==
    TStruct(EmbedFields(TPtr(BaseType), [query |-> "base", form |-> "base"]))

EmbedPlainType == TStruct(EmbedFields(BaseType, NoTags))

EmbedTypes == {EmbedTaggedType, EmbedTaggedPtrType, EmbedPlainType}

EmbedSources ==
    { <<>>,
      <<E("name", <<"n">>)>>,
      <<E("base.id", <<"1">>), E("name", <<"n">>), E("after", <<"z">>)>>,
      <<E("id", <<"5">>)>>,
      <<E("after", <<"z">>), E("ID", <<"x">>), E("base[id]", <<"2">>)>> }

EmbedRequests ==
    { WithQuery(EmptyRequest, q) : q \in EmbedSources }
    \cup { WithForm(EmptyRequest, f) : f \in EmbedSources }
    \cup { WithMultipart(EmptyRequest, f, <<>>) : f \in EmbedSources }
    \cup { [EmptyRequest EXCEPT !.headers = f] : f \in EmbedSources \ {<<>>} }

\* type Cased struct {
\*     Name string `query:"name" form:"name"`
\*     Kind string `query:"Kind" form:"Kind"`
\* }
CasedType ==
    TStruct(<<
        Field("Name", TString, [query |-> "name", form |-> "name"]),
        Field("Kind", TString, [query |-> "Kind", form |-> "Kind"]) >>)

\* sources with the key as given, with keys that differ from it in case
\* only, with both in the two orders, and with neither
CasedSources ==
    { <<>>,
      <<E("name", <<"a", "a2">>)>>,
      <<E("NAME", <<"b">>)>>,
      <<E("NAME", <<"b">>), E("name", <<"a">>)>>,
      <<E("name", <<"a">>), E("NAME", <<"b">>)>>,
      <<E("Name", <<"c">>), E("NAME", <<"b">>), E("kind", <<"k">>)>>,
      <<E("NAME", <<"b">>), E("Name", <<"c">>), E("KIND", <<"K">>), E("Kind", <<"x">>)>>,
      <<E("nam", <<"x">>), E("names", <<"y">>), E("kin", <<"z">>)>> }

CasedRequests ==
    { WithQuery(EmptyRequest, q) : q \in CasedSources }
    \cup { WithForm(EmptyRequest, f) : f \in CasedSources }
    \cup { WithForm(WithQuery(EmptyRequest, <<E("Name", <<"c">>)>>),
                    <<E("kind", <<"k">>)>>) }

\* type Prefixed struct {
\*     A  []int `query:"a" form:"a"`
\*     Ab []int `query:"ab" form:"ab"`
\* }
PrefixedType ==
    TStruct(<<
        Field("A", TSlice(TInt), [query |-> "a", form |-> "a"]),
        Field("Ab", TSlice(TInt), [query |-> "ab", form |-> "ab"]) >>)

\* sources whose keys address a, address ab, or carry a bracket group
\* somewhere after a name that begins with a
PrefixedSources ==
    { <<E("a[0]", <<"1">>)>>,
      <<E("a.1", <<"2">>)>>,
      <<E("ab[0]", <<"5">>)>>,
      <<E("ab.x[0]", <<"5">>)>>,
      <<E("ax[1]", <<"3">>)>>,
      <<E("a[0]", <<"1">>), E("ab[1]", <<"5">>)>>,
      <<E("ab[1]", <<"5">>), E("a[0]", <<"1">>)>>,
      <<E("a[0][1]", <<"1">>)>>,
      <<E("b[0]", <<"1">>), E("a", <<"4">>)>> }

PrefixedRequests ==
    { WithQuery(EmptyRequest, q) : q \in PrefixedSources }
    \cup { WithForm(EmptyRequest, f) : f \in PrefixedSources }

\* type Outer struct {
\*     P struct {
\*         S string `query:"s" form:"s"`
\*         N int    `query:"n" form:"n"`
\*     } `query:"p" form:"p"`
\*     S string `query:"s" form:"s"`
\* }
OuterType ==
    TStruct(<<
        Field("P", TStruct(<<Field("S", TString, [query |-> "s", form |-> "s"]),
                             Field("N", TInt, [query |-> "n", form |-> "n"])>>),
              [query |-> "p", form |-> "p"]),
        Field("S", TString, [query |-> "s", form |-> "s"]) >>)

\* sources that address the inner fields in the dot and in the bracket
\* notation, that hold the inner tag at the top level, and that hold keys
\* of other names
OuterSources ==
    { <<E("p.s", <<"a">>)>>,
      <<E("p[s]", <<"b">>)>>,
      <<E("s", <<"c">>)>>,
      <<E("s", <<"c">>), E("p.s", <<"a", "a2">>), E("p[n]", <<"7">>)>>,
      <<E("p[n]", <<"7", "8">>), E("p.s", <<"a">>), E("n", <<"3">>)>>,
      <<E("q.s", <<"z">>), E("ps", <<"y">>), E("pq.s", <<"w">>), E("n", <<"3">>)>>,
      <<E("pq[s]", <<"x">>)>>,
      <<E("pq[n]", <<"5">>), E("s", <<"c">>)>>,
      <<E("p.s.t", <<"e">>), E("p", <<"f">>)>> }

OuterRequests ==
    { WithQuery(EmptyRequest, q) : q \in OuterSources }
    \cup { WithForm(EmptyRequest, f) : f \in OuterSources }

\* type TextAll string     with UnmarshalParams, UnmarshalParam, UnmarshalText
\* type TextSingle string  with UnmarshalParam, UnmarshalText
\* type TextOnly string    with UnmarshalText
\* type TextMulti string   with UnmarshalParams
\* type IDs []string       with UnmarshalParams
TextAll == Named(TString, {"UnmarshalParams", "UnmarshalParam", "UnmarshalText"})
TextSingle == Named(TString, {"UnmarshalParam", "UnmarshalText"})
TextOnly == Named(TString, {"UnmarshalText"})
TextMulti == Named(TString, {"UnmarshalParams"})
IDs == Named(TSlice(TString), {"UnmarshalParams"})

\* type Decoded struct {
\*     All    TextAll      `query:"all" form:"all"`
\*     Single TextSingle   `query:"single" form:"single"`
\*     Text   TextOnly     `query:"text" form:"text"`
\*     Multi  TextMulti    `query:"multi" form:"multi"`
\*     Plain  string       `query:"plain" form:"plain"`
\*     Ptr    *TextSingle  `query:"ptr" form:"ptr"`
\*     List   []TextSingle `query:"list" form:"list"`
\*     IDs    IDs          `query:"ids" form:"ids"`
\* }
Both(k) == [query |-> k, form |-> k]

DecodedType ==
    TStruct(<<
        Field("All", TextAll, Both("all")),
        Field("Single", TextSingle, Both("single")),
        Field("Text", TextOnly, Both("text")),
        Field("Multi", TextMulti, Both("multi")),
        Field("Plain", TString, Both("plain")),
        Field("Ptr", TPtr(TextSingle), Both("ptr")),
        Field("List", TSlice(TextSingle), Both("list")),
        Field("IDs", IDs, Both("ids")) >>)

\* sources of one and of two values for the keys, with the value bad, on
\* which the decoders fail, first, second or not at all
DecodedSources ==
    { <<E("all", <<"a", "b">>), E("single", <<"a", "b">>), E("text", <<"a", "b">>),
        E("multi", <<"a", "b">>), E("plain", <<"a", "b">>)>>,
      <<E("ptr", <<"a", "b">>), E("list", <<"a", "b">>), E("ids", <<"a", "b">>)>>,
      <<E("plain", <<"c">>), E("all", <<"a", "bad">>)>>,
      <<E("single", <<"bad", "a">>), E("plain", <<"c">>), E("all", <<"a">>)>>,
      <<E("single", <<"a", "bad">>), E("text", <<"bad">>), E("ids", <<"a">>)>>,
      <<E("multi", <<"bad">>), E("ptr", <<"a">>)>>,
      <<E("ptr", <<"bad">>), E("list", <<"a">>)>>,
      <<E("list", <<"a", "bad">>), E("ids", <<"a">>), E("text", <<"b">>)>>,
      <<E("ids", <<"bad", "a">>), E("list", <<"b">>)>>,
      <<E("ids", <<"a">>), E("ids[0]", <<"y">>)>> }

DecodedRequests ==
    { WithQuery(EmptyRequest, q) : q \in DecodedSources }
    \cup { WithForm(EmptyRequest, f) : f \in DecodedSources }

\* type Stamp struct {
\*     At string `query:"at" form:"at"`
\* }                                    with UnmarshalParam
StampFields == <<Field("At", TString, Both("at"))>>

StampType == Named(TStruct(StampFields), {"UnmarshalParam"})

\* type Event struct {
\*     Untagged Stamp
\*     Tagged   Stamp  `query:"when" form:"when"`
\*     Ptr      *Stamp `query:"pwhen" form:"pwhen"`
\*     Plain    struct { At string `query:"at" form:"at"` }
\* }
EventType ==
    TStruct(<<
        Field("Untagged", StampType, NoTags),
        Field("Tagged", StampType, Both("when")),
        Field("Ptr", TPtr(StampType), Both("pwhen")),
        Field("Plain", TStruct(StampFields), NoTags) >>)

EventSources ==
    { <<E("at", <<"x">>)>>,
      <<E("when", <<"t1", "t2">>)>>,
      <<E("when", <<"t1">>), E("at", <<"x">>)>>,
      <<E("pwhen", <<"t3", "t4">>)>>,
      <<E("when.at", <<"z">>)>>,
      <<E("when", <<"bad">>)>>,
      <<E("pwhen", <<"bad">>), E("at", <<"x">>)>>,
      <<E("Untagged", <<"u">>), E("untagged", <<"v">>)>> }

EventRequests ==
    { WithQuery(EmptyRequest, q) : q \in EventSources }
    \cup { WithForm(EmptyRequest, f) : f \in EventSources }

\* type Numbers struct {
\*     I   int     `query:"v" form:"v"`    LI   []int     `query:"l" form:"l"`
\*     I8  int8    `query:"v" form:"v"`    LI8  []int8    `query:"l" form:"l"`
\*     ...                                 ...
\*     S   string  `query:"v" form:"v"`    LS   []string  `query:"l" form:"l"`
\* }     one field and one list for each kind of ScalarKinds
ScalarNames ==
    <<"I", "I8", "I16", "I32", "I64", "U", "U8", "U16", "U32", "U64",
      "B", "F32", "F64", "S">>

ScalarKinds ==
    <<TInt, TInt8, TInt16, TInt32, TInt64, TUint, TUint8, TUint16, TUint32, TUint64,
      TBool, TFloat32, TFloat64, TString>>

NumbersType ==
    TStruct([i \in 1..Len(ScalarNames) |-> Field(ScalarNames[i], ScalarKinds[i], Both("v"))]
            \o [i \in 1..Len(ScalarNames) |->
                  Field("L" \o ScalarNames[i], TSlice(ScalarKinds[i]), Both("l"))])

NumbersSources ==
    { <<E("v", <<"1">>)>>,
      <<E("v", <<"">>)>>,
      <<E("v", <<"", "1">>)>>,
      <<E("l", <<"1", "1">>)>>,
      <<E("l", <<"", "">>)>>,
      <<E("l", <<"1", "">>)>>,
      <<E("v", <<"">>), E("l", <<"">>)>>,
      <<E("l[1]", <<"">>)>>,
      <<E("l[0]", <<"1">>), E("l[1]", <<"1">>)>>,
      <<E("v", <<"x">>)>>,
      <<E("l", <<"1", "x">>)>> }

NumbersRequests == { WithQuery(EmptyRequest, q) : q \in NumbersSources }

\* type Signed struct {                   type Unsigned struct {
\*     I8 int8 `query:"i8" form:"i8"`        U8 uint8 `query:"u8" form:"u8"`
\*     ...                                   ...
\*     C  complex128 `query:"c" form:"c"`
\* }                                     }
\* a field for each integer kind, tagged by its kind
WidthNames == <<"I8", "I16", "I32", "I64", "I", "C", "U8", "U16", "U32", "U64", "U">>

WidthKeys == <<"i8", "i16", "i32", "i64", "i", "c", "u8", "u16", "u32", "u64", "u">>

WidthKinds ==
    <<TInt8, TInt16, TInt32, TInt64, TInt, TComplex128,
      TUint8, TUint16, TUint32, TUint64, TUint>>

WidthField(i) == Field(WidthNames[i], WidthKinds[i], Both(WidthKeys[i]))

SignedType == TStruct([i \in 1..6 |-> WidthField(i)])

UnsignedType == TStruct([i \in 1..5 |-> WidthField(i + 6)])

WidthsTypes == {SignedType, UnsignedType}

\* the numerals sent under each key: the two ends of the range of the kind
\* and their neighbours outside it, and numerals that are not decimal
WidthNumerals ==
    [i8 |-> {"127", "128", "-128", "-129", "+127", "0127", "-0", "1x", " 1", "1.0",
             "0x1f", "1_0", "+", "1e2"},
     i16 |-> {"32767", "32768", "-32768", "-32769"},
     i32 |-> {"2147483647", "2147483648", "-2147483648", "-2147483649"},
     i64 |-> {"9223372036854775807", "9223372036854775808",
              "-9223372036854775808", "-9223372036854775809"},
     i |-> {"9223372036854775807", "9223372036854775808",
            "-9223372036854775808", "-9223372036854775809"},
     u8 |-> {"255", "256", "-1", "+1", "-0", "0255", "2 5"},
     u16 |-> {"65535", "65536"},
     u32 |-> {"4294967295", "4294967296"},
     u64 |-> {"18446744073709551615", "18446744073709551616"},
     u |-> {"18446744073709551615", "18446744073709551616"},
     c |-> {"1"}]

\* the sources of the destination t: one numeral under the key of one of
\* its fields
WidthsSources(t) ==
    UNION { { <<E(t.fields[i].tags.query, <<n>>)>> :
                n \in WidthNumerals[t.fields[i].tags.query] } :
            i \in 1..Len(t.fields) }

WidthsRequests(t) == { WithQuery(EmptyRequest, q) : q \in WidthsSources(t) }

\* type Optional struct {
\*     P  *int    `query:"n" form:"n"`      N int    `query:"n" form:"n"`
\*     PS *string `query:"s" form:"s"`      S string `query:"s" form:"s"`
\*     PL *[]int  `query:"t" form:"t"`      L []int  `query:"t" form:"t"`
\* }
OptionalType ==
    TStruct(<<
        Field("P", TPtr(TInt), Both("n")), Field("N", TInt, Both("n")),
        Field("PS", TPtr(TString), Both("s")), Field("S", TString, Both("s")),
        Field("PL", TPtr(TSlice(TInt)), Both("t")), Field("L", TSlice(TInt), Both("t")) >>)

OptionalSources ==
    { <<E("n", <<"5">>)>>,
      <<E("n", <<"6", "7">>), E("s", <<"a">>)>>,
      <<E("s", <<"">>)>>,
      <<E("t", <<"1", "2">>)>>,
      <<E("t", <<"3">>), E("n", <<"5">>)>>,
      <<E("t[0]", <<"1">>)>>,
      <<E("t[1]", <<"4">>), E("s", <<"a">>)>>,
      <<E("t", <<"7", "8">>), E("t[0]", <<"3">>)>>,
      <<E("x", <<"1">>)>>,
      <<E("n", <<"x">>)>>,
      <<E("t", <<"1", "x">>)>> }

OptionalRequests == { WithQuery(EmptyRequest, q) : q \in OptionalSources }

\* type Visited struct {
\*     Name string                            `query:"name" form:"name"`
\*     P    struct { S string `query:"s" form:"s"` } `query:"p" form:"p"`
\*     T    []int                             `query:"t" form:"t"`
\* }
\* with sources in which the order of the visit of the keys can matter; a
\* source is written in the order in which range visits its keys
VisitedType ==
    TStruct(<<
        Field("Name", TString, Both("name")),
        Field("P", TStruct(<<Field("S", TString, Both("s"))>>), Both("p")),
        Field("T", TSlice(TInt), Both("t")) >>)

VisitedSources ==
    { <<E("NAME", <<"b">>), E("Name", <<"c">>)>>,
      <<E("name", <<"a">>), E("NAME", <<"b">>), E("Name", <<"c">>)>>,
      <<E("p.s", <<"a">>), E("p[s]", <<"b">>)>>,
      <<E("t[0]", <<"1">>), E("t[00]", <<"2">>)>>,
      <<E("t[0]", <<"1">>), E("t.x", <<"2">>)>>,
      <<E("t[1]", <<"1">>), E("t[0]", <<"x">>)>>,
      <<E("t[0]", <<"1">>), E("t[1]", <<"2">>), E("p.s", <<"a">>)>>,
      <<E("name", <<"a">>), E("t", <<"3">>)>> }

VisitedRequests == { WithQuery(EmptyRequest, q) : q \in VisitedSources }

\* type Sparse struct {
\*     N int               `query:"n" form:"n"`
\*     T []int             `query:"t" form:"t"`
\*     M map[string]string `query:"m" form:"m"`
\*     D TextMulti         `query:"d" form:"d"`
\* }
\* with maps in which a key has no value, url.Values{"n": {}}: what an
\* implementation of BindableRequest may return from GetForm
SparseType ==
    TStruct(<<
        Field("N", TInt, Both("n")),
        Field("T", TSlice(TInt), Both("t")),
        Field("M", TMap(TString), Both("m")),
        Field("D", TextMulti, Both("d")) >>)

SparseSources ==
    { <<E("n", <<>>)>>,
      <<E("t", <<>>)>>,
      <<E("t[0]", <<>>)>>,
      <<E("t[1]", <<"5">>), E("t[0]", <<>>)>>,
      <<E("m[a]", <<>>)>>,
      <<E("m[b]", <<"y">>), E("m[a]", <<>>), E("n", <<"3">>)>>,
      <<E("d", <<>>)>>,
      <<E("x", <<>>)>>,
      <<E("n", <<"1">>), E("t[0]", <<"2">>), E("m[a]", <<"x">>), E("d", <<"v">>)>> }

SparseRequests == { WithForm(EmptyRequest, f) : f \in SparseSources }

\* type Frame struct {
\*     I  int16   `query:"i" form:"i"`      LI []int     `query:"li" form:"li"`
\*     U  uint8   `query:"u" form:"u"`      LU []uint    `query:"lu" form:"lu"`
\*     B  bool    `query:"b" form:"b"`      LB []bool    `query:"lb" form:"lb"`
\*     F  float64 `query:"f" form:"f"`      LF []float32 `query:"lf" form:"lf"`
\* }
FrameType ==
    TStruct(<<
        Field("I", TInt16, Both("i")), Field("LI", TSlice(TInt), Both("li")),
        Field("U", TUint8, Both("u")), Field("LU", TSlice(TUint), Both("lu")),
        Field("B", TBool, Both("b")), Field("LB", TSlice(TBool), Both("lb")),
        Field("F", TFloat64, Both("f")), Field("LF", TSlice(TFloat32), Both("lf")) >>)

FrameSources ==
    { <<E("i", <<"7">>)>>, <<E("i", <<"40000">>)>>,
      <<E("u", <<"9">>)>>, <<E("u", <<"-1">>)>>,
      <<E("b", <<"1">>)>>, <<E("b", <<"yes">>)>>,
      <<E("f", <<"1.5">>)>>, <<E("f", <<"1,5">>)>>,
      <<E("li", <<"1", "2">>)>>, <<E("li", <<"3", "x">>)>>, <<E("li", <<"x", "3", "4">>)>>,
      <<E("lu", <<"1", "2">>)>>, <<E("lu", <<"3", "-4">>)>>,
      <<E("lb", <<"1", "0">>)>>, <<E("lb", <<"0", "2">>)>>,
      <<E("lf", <<"1.5", "2">>)>>, <<E("lf", <<"3", "1.2.3">>)>> }

FrameRequests == { WithQuery(EmptyRequest, q) : q \in FrameSources }

Requests(t) ==
    CASE t = UserType -> UserRequests
      [] t = FrameType -> FrameRequests
      [] t = SparseType -> SparseRequests
      [] t = VisitedType -> VisitedRequests
      [] t = OptionalType -> OptionalRequests
      [] t \in WidthsTypes -> WidthsRequests(t)
      [] t = NumbersType -> NumbersRequests
      [] t = DecodedType -> DecodedRequests
      [] t = EventType -> EventRequests
      [] t = OuterType -> OuterRequests
      [] t = PrefixedType -> PrefixedRequests
      [] t = CasedType -> CasedRequests
      [] t \in EmbedTypes -> EmbedRequests
      [] t = TestStructType -> HttpRequests
      [] t = ListsType -> ListsRequests
      [] t = RecordType -> RecordRequests
      [] t \in MapTypes \cup ScalarTypes -> MapRequests
      [] t \in FileTypes -> FileRequests

Types == {UserType, ListsType, RecordType} \cup MapTypes \cup FileTypes \cup EmbedTypes
         \cup {TestStructType, CasedType, PrefixedType, OuterType} \cup ScalarTypes
         \cup {DecodedType, EventType, NumbersType, OptionalType,
               VisitedType, SparseType, FrameType} \cup WidthsTypes

\* the values that a new destination of type t holds when it is passed to the
\* binder: the zero value, and for an embedded pointer also a pointer that
\* the caller has set
Destinations(t) ==
    IF t = EmbedTaggedPtrType
    THEN {Zero(t), [Zero(t) EXCEPT !.Base = Ref(Zero(BaseType))]}
    ELSE {Zero(t)}

(***************************************************************************)
(* The state machine: a destination of type typ holding val, on which the   *)
(* entry points of the binder are called with requests.  pre, req, op, err, *)
(* ran and dlg record the last call: the destination before it, its         *)
(* request, the entry point, the error returned, the BindFuncs that Bind    *)
(* called and the delegate or form parser invoked; op is "new" when the    *)
(* destination awaits a call, and calls counts the calls made on it.       *)
(***************************************************************************)
InitWith(types) ==
    /\ typ \in types
    /\ val \in Destinations(typ)
    /\ pre = val
    /\ req = EmptyRequest
    /\ op = "new"
    /\ err = ""
    /\ ran = <<>>
    /\ dlg = "none"
    /\ calls = 0

\* the package before any call of GetBinder and GetHttpBinder: both
\* variables are nil (0), and every goroutine is about to make its call
Goroutines == 1..MaxGoroutines

NoBinderYet ==
    /\ DefaultBinderInstance = 0
    /\ DefaultHttpBinder = [id |-> 0, binder |-> 0]
    /\ created = 0
    /\ gor = [g \in Goroutines |->
                [pc |-> "start", via |-> "", inst |-> 0, got |-> [binder |-> 0, http |-> 0]]]

Init == InitWith(Types) /\ NoBinderYet

Called(name, r, res) ==
    /\ op = "new"
    /\ calls' = calls + 1
    /\ pre' = val
    /\ val' = res.val
    /\ err' = res.err
    /\ dlg' = res.dlg
    /\ ran' = IF "ran" \in DOMAIN res THEN res.ran ELSE <<>>
    /\ req' = r
    /\ op' = name
    /\ UNCHANGED typ
    /\ UNCHANGED getvars

\* the caller keeps the destination for a further call: the record of the
\* last call is dropped
Reuse ==
    /\ op # "new"
    /\ calls < MaxCalls
    /\ pre' = val
    /\ req' = EmptyRequest
    /\ op' = "new"
    /\ err' = ""
    /\ ran' = <<>>
    /\ dlg' = "none"
    /\ UNCHANGED <<typ, val, calls>>
    /\ UNCHANGED getvars

DoBind ==
    \E r \in Requests(typ) :
        Called("Bind", r, Bind(NewBinder, r, typ, val))

DoBindPathParams ==
    \E r \in Requests(typ) :
        Called("BindPathParams", r, BindPathParams(NewBinder, r, typ, val))

DoBindQueryParams ==
    \E r \in Requests(typ) :
        Called("BindQueryParams", r, BindQueryParams(NewBinder, r, typ, val))

DoBindBody ==
    \E r \in Requests(typ) :
        Called("BindBody", r, BindBody(NewBinder, r, typ, val))

DoBindHeaders ==
    \E r \in Requests(typ) :
        Called("BindHeaders", r, BindHeaders(NewBinder, r, typ, val))

DoBindPath ==
    \E r \in Requests(typ) :
        Called("BindPath", r, BindPath(r, typ, val))

DoBindQuery ==
    \E r \in Requests(typ) :
        Called("BindQuery", r, BindQuery(r, typ, val))

DoBindHeader ==
    \E r \in Requests(typ) :
        Called("BindHeader", r, BindHeader(r, typ, val))

Next ==
    \/ DoBind
    \/ DoBindPath
    \/ DoBindQuery
    \/ DoBindHeader
    \/ DoBindPathParams
    \/ DoBindQueryParams
    \/ DoBindBody
    \/ DoBindHeaders
    \/ Reuse

Spec == Init /\ [][Next]_vars

(***************************************************************************)
(* binder.go and http_binder.go: GetBinder and GetHttpBinder, called by     *)
(* goroutines without synchronisation.  A *DefaultBinder is the number of   *)
(* the run of NewBinder that made it and a *HttpBinder the record of the    *)
(* goroutine that made it and of the Binder it wraps; 0 is nil.  Each read  *)
(* and each write of a package variable is one step.                        *)
(*   gor[g].pc    where goroutine g is                                      *)
(*   gor[g].via   the function it has called: "binder" or "http"          *)
(*   gor[g].inst  the binder it holds in a local                            *)
(*   gor[g].got   what its call has returned                                *)
(***************************************************************************)
At(g, pc) == gor[g].pc = pc

Goto(g, pc) == gor' = [gor EXCEPT ![g].pc = pc]

\* a goroutine calls GetBinder()
CallGetBinder(g) ==
    /\ At(g, "start")
    /\ gor' = [gor EXCEPT ![g].pc = "check", ![g].via = "binder"]
    /\ UNCHANGED <<DefaultBinderInstance, DefaultHttpBinder, created, bindvars>>

\* a goroutine calls GetHttpBinder()
CallGetHttpBinder(g) ==
    /\ At(g, "start")
    /\ gor' = [gor EXCEPT ![g].pc = "hcheck", ![g].via = "http"]
    /\ UNCHANGED <<DefaultBinderInstance, DefaultHttpBinder, created, bindvars>>

\* if DefaultHttpBinder == nil: NewHttpBinder calls GetBinder
HttpCheck(g) ==
    /\ At(g, "hcheck")
    /\ Goto(g, IF DefaultHttpBinder.id = 0 THEN "check" ELSE "hreturn")
    /\ UNCHANGED <<DefaultBinderInstance, DefaultHttpBinder, created, bindvars>>

\* if DefaultBinderInstance == nil
Check(g) ==
    /\ At(g, "check")
    /\ Goto(g, IF DefaultBinderInstance = 0 THEN "new" ELSE "return")
    /\ UNCHANGED <<DefaultBinderInstance, DefaultHttpBinder, created, bindvars>>

\* NewBinder()
New(g) ==
    /\ At(g, "new")
    /\ created' = created + 1
    /\ gor' = [gor EXCEPT ![g].pc = "store", ![g].inst = created + 1]
    /\ UNCHANGED <<DefaultBinderInstance, DefaultHttpBinder, bindvars>>

\* DefaultBinderInstance = the new binder
Store(g) ==
    /\ At(g, "store")
    /\ DefaultBinderInstance' = gor[g].inst
    /\ Goto(g, "return")
    /\ UNCHANGED <<DefaultHttpBinder, created, bindvars>>

\* return DefaultBinderInstance: to the caller of GetBinder, or to
\* NewHttpBinder, which wraps it
Return(g) ==
    /\ At(g, "return")
    /\ gor' = IF gor[g].via = "binder"
              THEN [gor EXCEPT ![g].pc = "done", ![g].got.binder = DefaultBinderInstance]
              ELSE [gor EXCEPT ![g].pc = "hstore", ![g].inst = DefaultBinderInstance]
    /\ UNCHANGED <<DefaultBinderInstance, DefaultHttpBinder, created, bindvars>>

\* DefaultHttpBinder = &HttpBinder{the binder}
HttpStore(g) ==
    /\ At(g, "hstore")
    /\ DefaultHttpBinder' = [id |-> g, binder |-> gor[g].inst]
    /\ Goto(g, "hreturn")
    /\ UNCHANGED <<DefaultBinderInstance, created, bindvars>>

\* return DefaultHttpBinder
HttpReturn(g) ==
    /\ At(g, "hreturn")
    /\ gor' = [gor EXCEPT ![g].pc = "done",
                          ![g].got = [binder |-> DefaultHttpBinder.binder,
                                      http |-> DefaultHttpBinder.id]]
    /\ UNCHANGED <<DefaultBinderInstance, DefaultHttpBinder, created, bindvars>>

InitGetBinder == InitWith({UserType}) /\ NoBinderYet

NextGetBinder ==
    \E g \in Goroutines :
        \/ CallGetBinder(g)
        \/ CallGetHttpBinder(g)
        \/ HttpCheck(g)
        \/ Check(g)
        \/ New(g)
        \/ Store(g)
        \/ Return(g)
        \/ HttpStore(g)
        \/ HttpReturn(g)

SpecGetBinder == InitGetBinder /\ [][NextGetBinder]_vars

(***************************************************************************)
(* What a request supplies, read off the request itself.                    *)
(***************************************************************************)
\* the first value of the first key of data that equals key ignoring case;
\* the requests of the model hold no two such keys
Supplies(data, key) == \E i \in 1..Len(data) : EqualFold(data[i].k, key)

Supplied(data, key) ==
    data[CHOOSE i \in 1..Len(data) : EqualFold(data[i].k, key)].v[1]

\* the route of the request names the path parameter
PathSupplies(r, name) == r.pattern = "/users/{" \o name \o "}"

\* the content type of the request is c, parameters aside
HasMediaType(r, c) ==
    r.headers \in { ContentType(c), ContentType(c \o "; charset=utf-8"),
                    ContentType(c \o "; boundary=xyz") }

\* the body of the request is read and supplies the member or form value key
BodySupplies(r, key) ==
    /\ r.clen > 0
    /\ \/ HasMediaType(r, MIMEApplicationJSON) /\ r.body.ok /\ key \in DOMAIN r.body.obj
       \/ HasMediaType(r, MIMEApplicationForm) /\ Supplies(r.form, key)
       \/ HasMediaType(r, MIMEMultipartForm) /\ Supplies(r.mpValue, key)

BodySupplied(r, key) ==
    IF HasMediaType(r, MIMEApplicationJSON) THEN r.body.obj[key]
    ELSE IF HasMediaType(r, MIMEApplicationForm) THEN Supplied(r.form, key)
    ELSE Supplied(r.mpValue, key)

\* the body of the request is not read, or is read and holds nothing
BodySilent(r) ==
    \/ r.clen <= 0
    \/ HasMediaType(r, MIMEApplicationForm) /\ r.form = <<>> /\ r.formErr = ""

\* the data that a call of one source binds: the query of BindQueryParams,
\* the values of the form that a BindBody has parsed
SourceOf(o, r, d) ==
    IF o = "BindQueryParams" THEN r.query
    ELSE IF o = "BindBody" /\ d = "form" /\ r.formErr = "" THEN r.form
    ELSE IF o = "BindBody" /\ d = "multipart" /\ r.mpErr = "" THEN r.mpValue
    ELSE <<>>

\* the indices of data that hold a key which concerns the field tagged name:
\* the key itself, or the key followed by a bracket or by the separator
FieldKeys(data, name) ==
    { j \in 1..Len(data) :
        \/ data[j].k = name
        \/ HasPrefix(data[j].k, name \o "[")
        \/ HasPrefix(data[j].k, name \o DefaultDeepObjectSeparator) }

(***************************************************************************)
(* C1.  Bind with the default bind order calls exactly the three stages     *)
(* path parameters, query parameters, body, in that order, on the one       *)
(* destination, and headers are no stage: the stages of a Bind call are a   *)
(* prefix of that list, the whole list when no stage fails.  For the field  *)
(* Name of User, tagged for all three sources: when path, query and body    *)
(* all supply a name the field ends as the body's value, and when only path *)
(* and query supply one it ends as the query's value.                       *)
(***************************************************************************)
C1_BindOrderAndPrecedence ==
    op = "Bind" =>
        /\ Len(ran) <= 3
        /\ ran = SubSeq(<<"BindPathParams", "BindQueryParams", "BindBody">>, 1, Len(ran))
        /\ err = "" => Len(ran) = 3
        /\ err # "" => Len(ran) >= 1
        /\ (/\ typ = UserType /\ err = ""
            /\ PathSupplies(req, "name") /\ Supplies(req.query, "name")
            /\ BodySupplies(req, "name"))
           => val.Name = BodySupplied(req, "name")
        /\ (/\ typ = UserType /\ err = ""
            /\ PathSupplies(req, "name") /\ Supplies(req.query, "name")
            /\ BodySilent(req))
           => val.Name = Supplied(req.query, "name")

\* a Bind call on a request with path name a, query name b and a JSON body
\* with name c has left the name c
C1_Witness ==
    /\ op = "Bind" /\ typ = UserType /\ err = ""
    /\ ran = <<"BindPathParams", "BindQueryParams", "BindBody">>
    /\ PathSupplies(req, "name") /\ req.pathv.name = "a"
    /\ Supplies(req.query, "name") /\ Supplied(req.query, "name") = "b"
    /\ HasMediaType(req, MIMEApplicationJSON) /\ BodySupplies(req, "name")
    /\ val.Name = "c" /\ pre.Name = ""

(***************************************************************************)
(* C2.  Binding across sources is overwrite, not merge, for every field     *)
(* shape: when the query stage and the form stage of one Bind call both     *)
(* supply data for a field (the list T fed by indexed keys, the map M, the  *)
(* scalar S), the field ends holding only what the form supplied, that is   *)
(* what binding the form alone into an empty destination gives.             *)
(***************************************************************************)
FormAlone(r) == bindData(NewBinder, typ, Zero(typ), r.form, DefaultFormTagName, <<>>).val

BothSupply(r, name) ==
    /\ FieldKeys(r.query, name) # {}
    /\ r.clen > 0 /\ HasMediaType(r, MIMEApplicationForm)
    /\ FieldKeys(r.form, name) # {}

C2_OverwriteNotMerge ==
    (op = "Bind" /\ typ = ListsType /\ err = "") =>
        /\ BothSupply(req, "t") => val.T = FormAlone(req).T
        /\ BothSupply(req, "m") => val.M = FormAlone(req).M
        /\ BothSupply(req, "s") => val.S = FormAlone(req).S

\* a Bind call whose query holds t[0]=1 and whose form holds t[1]=2 has
\* left the list [1, 2], and one whose query holds m[a]=1 and whose form
\* holds m[b]=2 the map {a: 1, b: 2}: the element and the key of the query
\* survive
C2_Witness ==
    /\ op = "Bind" /\ typ = ListsType /\ err = "" /\ pre = Zero(ListsType)
    /\ \/ /\ req.query = <<E("t[0]", <<"1">>)>> /\ req.form = <<E("t[1]", <<"2">>)>>
          /\ val.T = <<1, 2>>
       \/ /\ req.query = <<E("m[a]", <<"1">>)>> /\ req.form = <<E("m[b]", <<"2">>)>>
          /\ val.M = [nil |-> FALSE, m |-> [a |-> "1", b |-> "2"]]

(***************************************************************************)
(* C3.  After a bindData of a record under the source tag T, every field    *)
(* that is no record and whose value differs carries a non-empty T tag; a   *)
(* field without a T tag is never assigned, and one that is a record is     *)
(* only walked, so that inside it too only tagged fields change.            *)
(***************************************************************************)
\* the tag under which a call of one source binds
TagOfCall(o) ==
    CASE o = "BindPathParams" -> DefaultParamTagName
      [] o = "BindQueryParams" -> DefaultQueryTagName
      [] OTHER -> DefaultFormTagName

RECURSIVE OnlyTaggedChanged(_, _, _, _)
OnlyTaggedChanged(t, before, after, tag) ==
    \A i \in 1..Len(t.fields) :
        LET f == t.fields[i]
        IN  \/ after[f.name] = before[f.name]
            \/ f.typ.kind # "struct" /\ TagGet(f, tag) # ""
            \/ f.typ.kind = "struct"
               /\ OnlyTaggedChanged(f.typ, before[f.name], after[f.name], tag)

C3_OnlyTaggedFields ==
    (/\ typ = RecordType
     /\ \/ op \in {"BindPathParams", "BindQueryParams", "BindHeaders"}
        \/ op = "BindBody" /\ dlg \in {"form", "multipart"})
    => OnlyTaggedChanged(typ, pre, val, TagOfCall(op))

\* a query with keys named after the untagged fields Plain, In.U and Nest.U
\* and with the keys s and nest.y has changed In.S and Nest.Y only
C3_Witness ==
    /\ typ = RecordType /\ op = "BindQueryParams" /\ err = ""
    /\ pre = Zero(RecordType)
    /\ Has(req.query, "Plain") /\ Has(req.query, "U") /\ Has(req.query, "nest.U")
    /\ val = [Zero(RecordType) EXCEPT !.In.S = "p", !.Nest.Y = 8]

(***************************************************************************)
(* C4.  BindBody dispatches on the content type with everything from the    *)
(* first ';' removed and the surrounding spaces trimmed.  With a content    *)
(* length of zero or less it returns no error, invokes no delegate and no   *)
(* form parser and leaves the destination as it was, whatever the content   *)
(* type.  Otherwise application/json goes to the JSON delegate,             *)
(* application/xml and text/xml to the XML delegate,                        *)
(* application/x-www-form-urlencoded binds the parsed form values under the *)
(* form tag without files, multipart/form-data binds the parsed values and  *)
(* files under the form tag, and any other media type returns               *)
(* "unsupported media type" with the destination as it was.                 *)
(***************************************************************************)
\* the Content-Type header of the request as sent, "" when there is none
RawContentType(r) ==
    IF \E j \in 1..Len(r.headers) : r.headers[j].k = "Content-Type"
    THEN r.headers[CHOOSE j \in 1..Len(r.headers) : r.headers[j].k = "Content-Type"].v[1]
    ELSE ""

\* the content types of the requests, by the row of the dispatch table
MediaKind(c) ==
    CASE c \in {"application/json", "application/json; charset=utf-8",
                " application/json "} -> "json"
      [] c \in {"application/xml", "text/xml;q=1"} -> "xml"
      [] c \in {"application/x-www-form-urlencoded",
                "application/x-www-form-urlencoded ; a=b"} -> "form"
      [] c \in {"multipart/form-data", "multipart/form-data; boundary=xyz"} -> "multipart"
      [] c \in {"application/jsonx", "text/plain", "", ";application/json"} -> "none"

FormBound(r) == bindData(NewBinder, typ, pre, r.form, "form", <<>>)

MultipartBound(r) == bindData(NewBinder, typ, pre, r.mpValue, "form", r.mpFile)

C4_BodyDispatch ==
    op = "BindBody" =>
        IF req.clen <= 0 THEN err = "" /\ dlg = "none" /\ val = pre
        ELSE CASE MediaKind(RawContentType(req)) = "json" ->
                      /\ dlg = "json"
                      /\ (err = "") = (Deserialize("json", req, typ, pre).err = "")
                      /\ val = Deserialize("json", req, typ, pre).val
               [] MediaKind(RawContentType(req)) = "xml" ->
                      /\ dlg = "xml"
                      /\ (err = "") = (Deserialize("xml", req, typ, pre).err = "")
                      /\ val = Deserialize("xml", req, typ, pre).val
               [] MediaKind(RawContentType(req)) = "form" ->
                      /\ dlg = "form"
                      /\ req.formErr = "" => err = FormBound(req).err
                      /\ req.formErr = "" => val = FormBound(req).val
                      /\ req.formErr # "" => (err = req.formErr /\ val = pre)
               [] MediaKind(RawContentType(req)) = "multipart" ->
                      /\ dlg = "multipart"
                      /\ req.mpErr = "" => err = MultipartBound(req).err
                      /\ req.mpErr = "" => val = MultipartBound(req).val
                      /\ req.mpErr # "" => (err = req.mpErr /\ val = pre)
               [] MediaKind(RawContentType(req)) = "none" ->
                      err = ErrUnsupportedMedia /\ dlg = "none" /\ val = pre

\* a body of type "application/x-www-form-urlencoded ; a=b" has been bound
\* from the form values, not from the multipart values or the document
C4_Witness ==
    /\ op = "BindBody" /\ typ = UserType /\ req.clen > 0
    /\ RawContentType(req) = "application/x-www-form-urlencoded ; a=b"
    /\ dlg = "form" /\ err = ""
    /\ pre.Name = "" /\ val.Name = "uf"

(***************************************************************************)
(* C5.  On a destination map[string]E with E one of string, interface{}     *)
(* and []string, bindData of a source that holds a key writes one entry per *)
(* key of the source: the first value of the key for string and             *)
(* interface{}, the whole sequence in its order for []string; a nil map is  *)
(* created first, and the entries of other keys stay.  A map of another     *)
(* element is left as it was.                                               *)
(***************************************************************************)
EntriesOf(m) == IF m.nil THEN <<>> ELSE m.m

ListKeys == [i \in 0..MaxArraySize |-> IndexKey("t", i)]

ListKeySet == {ListKeys[i] : i \in 0..MaxArraySize}

IndexOfKey(k) == CHOOSE i \in 0..MaxArraySize : ListKeys[i] = k

\* the integers that the numerals of the requests denote
Numerals ==
    [s \in {"", "0", "1", "2", "3", "4", "5", "6", "7", "8", "9", "-2"} |->
        CASE s = "" -> 0 [] s = "0" -> 0 [] s = "1" -> 1 [] s = "2" -> 2
          [] s = "3" -> 3 [] s = "4" -> 4 [] s = "5" -> 5 [] s = "6" -> 6
          [] s = "7" -> 7 [] s = "8" -> 8 [] s = "9" -> 9 [] s = "-2" -> -2]

\* every key of data for t is one of t[0] .. t[MaxArraySize] and carries a
\* numeral first, and there is such a key
IndexedSource(data) ==
    /\ FieldKeys(data, "t") # {}
    /\ \A j \in FieldKeys(data, "t") :
          data[j].k \in ListKeySet /\ data[j].v[1] \in DOMAIN Numerals

Largest(S) == CHOOSE n \in S : \A m \in S : m <= n

ListFrom(data) ==
    LET at == [j \in FieldKeys(data, "t") |-> IndexOfKey(data[j].k)]
        I == {at[j] : j \in DOMAIN at}
    IN  [n \in 1..(Largest(I) + 1) |->
            IF n - 1 \in I
            THEN Numerals[data[CHOOSE j \in DOMAIN at : at[j] = n - 1].v[1]]
            ELSE 0]

OversizeKeys == {IndexKey("t", i) : i \in (MaxArraySize + 1)..(MaxArraySize + 3)}

Oversize(data) == \E j \in 1..Len(data) : data[j].k \in OversizeKeys

C8_HeaderTag ==
    (/\ op = "BindHeaders" /\ typ = UserType /\ err = ""
     /\ Supplies(req.headers, "X-Header-Value"))
    => val.HeaderValue = Supplied(req.headers, "X-Header-Value")

\* BindHeaders on the header X-Header-Value: v has returned no error and
\* left HeaderValue empty
C8_Witness ==
    /\ op = "BindHeaders" /\ typ = UserType /\ err = "" /\ pre = Zero(UserType)
    /\ req.headers = <<E("X-Header-Value", <<"v", "w">>)>>
    /\ val.HeaderValue = ""

(***************************************************************************)
(* C9.  The first error aborts the whole call.  The tagged fields of Record *)
(* are visited in the order A, In.S, Nest.X, Nest.Y, Z.  After a bindData:  *)
(* the call returns an error exactly when the source holds a value that     *)
(* does not coerce; the fields before the first such field hold their       *)
(* newly bound values, and that field and all fields after it hold what     *)
(* they held before.  In Bind a failing query stage is the last stage run   *)
(* and the form is not bound; a failing form leaves what the query bound.   *)
(***************************************************************************)
RecordLeaves ==
    << [key |-> "a", int |-> TRUE], [key |-> "s", int |-> FALSE],
       [key |-> "nest.x", int |-> TRUE], [key |-> "nest.y", int |-> TRUE],
       [key |-> "z", int |-> TRUE] >>

LeavesOf(v) == <<v.A, v.In.S, v.Nest.X, v.Nest.Y, v.Z>>

\* keys that name no tagged field of Record
RecordNoise == {"Plain", "plain", "U", "u", "In", "in.s", "nest.U", "nest.u"}

CanonicalKeys(data) ==
    \A j \in 1..Len(data) :
        \/ data[j].k \in RecordNoise
        \/ \E n \in 1..Len(RecordLeaves) : data[j].k = RecordLeaves[n].key

BadLeaf(data, n) ==
    /\ RecordLeaves[n].int
    /\ Has(data, RecordLeaves[n].key)
    /\ Get(data, RecordLeaves[n].key)[1] \notin DOMAIN Numerals

\* the place of the first field whose value does not coerce, one past the
\* last field when all coerce
FirstBad(data) ==
    IF \E n \in 1..Len(RecordLeaves) : BadLeaf(data, n)
    THEN CHOOSE n \in 1..Len(RecordLeaves) :
             BadLeaf(data, n) /\ \A m \in 1..(n - 1) : ~BadLeaf(data, m)
    ELSE Len(RecordLeaves) + 1

ExpectedLeaf(data, n, old) ==
    IF ~Has(data, RecordLeaves[n].key) THEN old
    ELSE IF RecordLeaves[n].int THEN Numerals[Get(data, RecordLeaves[n].key)[1]]
    ELSE Get(data, RecordLeaves[n].key)[1]

\* the fields after binding data over the fields before
LeavesAfter(data, before) ==
    [n \in 1..Len(RecordLeaves) |->
        IF n < FirstBad(data) THEN ExpectedLeaf(data, n, before[n]) ELSE before[n]]

Fails(data) == FirstBad(data) <= Len(RecordLeaves)

\* the form that the body stage of Bind binds
FormRead(r) ==
    IF r.clen > 0 /\ HasMediaType(r, MIMEApplicationForm) THEN r.form ELSE <<>>

C9_FirstErrorAborts ==
    /\ (/\ typ = RecordType /\ op \in {"BindQueryParams", "BindBody"}
        /\ CanonicalKeys(SourceOf(op, req, dlg)))
       => /\ LeavesOf(val) = LeavesAfter(SourceOf(op, req, dlg), LeavesOf(pre))
          /\ err = IF Fails(SourceOf(op, req, dlg)) THEN ErrSyntaxInt ELSE ""
    /\ (/\ typ = RecordType /\ op = "Bind"
        /\ CanonicalKeys(req.query) /\ CanonicalKeys(FormRead(req)))
       => IF Fails(req.query)
          THEN /\ err = ErrSyntaxInt
               /\ ran = <<"BindPathParams", "BindQueryParams">>
               /\ dlg = "none"
               /\ LeavesOf(val) = LeavesAfter(req.query, LeavesOf(pre))
          ELSE /\ ran = <<"BindPathParams", "BindQueryParams", "BindBody">>
               /\ err = IF Fails(FormRead(req)) THEN ErrSyntaxInt ELSE ""
               /\ LeavesOf(val) =
                      LeavesAfter(FormRead(req), LeavesAfter(req.query, LeavesOf(pre)))

\* a query whose value for Nest.X does not coerce: A and In.S are bound,
\* Nest.X, Nest.Y and Z are not, and the call has returned the error
C9_Witness ==
    /\ typ = RecordType /\ op = "BindQueryParams" /\ pre = Zero(RecordType)
    /\ Has(req.query, "nest.y") /\ Has(req.query, "z")
    /\ Get(req.query, "nest.x") = <<"bad">>
    /\ err = ErrSyntaxInt
    /\ LeavesOf(val) = <<1, "p", 0, 0, 0>>

(***************************************************************************)
(* C10.  A record with a tagged field of type multipart.FileHeader (not a   *)
(* pointer) is rejected with an error by every form or multipart bind call  *)
(* that reaches the field, whether a file was uploaded under its key, under *)
(* another key or not at all.                                               *)
(***************************************************************************)
\* the call has parsed a form of the body and walked the fields with it
ReachesFields(o, r, d) ==
    /\ o \in {"BindBody", "Bind"}
    /\ \/ d = "form" /\ r.formErr = "" /\ r.form # <<>>
       \/ d = "multipart" /\ r.mpErr = "" /\ (r.mpValue # <<>> \/ r.mpFile # <<>>)

C10_BareFileHeaderRejected ==
    (typ = UploadType /\ ReachesFields(op, req, dlg)) => err = ErrFileHeader

\* a multipart body with the value title=doc and no file has been bound
\* into the record with the bare FileHeader field without an error
C10_Witness ==
    /\ typ = UploadType /\ op = "BindBody" /\ dlg = "multipart"
    /\ req.mpValue = <<E("title", <<"doc">>)>> /\ req.mpFile = <<>> /\ req.mpErr = ""
    /\ err = "" /\ val.Title = "doc"

(***************************************************************************)
(* C11.  A multipart bind call whose file map is not empty, on a record     *)
(* with a field File tagged file of one of the accepted file shapes.  When  *)
(* the file map holds files under the key file: a *FileHeader field         *)
(* receives the first of them, a []FileHeader field all of them by value in *)
(* their order, a []*FileHeader field all of them in their order; value     *)
(* binding is skipped for the field, so that a text value under the same    *)
(* key neither fails the call nor reaches the field, and the fields Title   *)
(* and After are bound from the values.  When the key has no file the       *)
(* field is not assigned from the files and the call does what it does      *)
(* without any file map: the ordinary value binding runs for the field.     *)
(***************************************************************************)
AcceptedFileTypes == {UploadPtrType, UploadSliceType, UploadPtrSliceType}

\* what a field of type t holds after the files fileHeaders were assigned
FilesAs(t, fileHeaders) ==
    CASE t = multipartFileHeaderPointerType -> fileHeaders[1]
      [] t = multipartFileHeaderSliceType ->
             [i \in 1..Len(fileHeaders) |-> [Filename |-> fileHeaders[i].v.Filename]]
      [] t = multipartFileHeaderPointerSliceType -> fileHeaders

\* the first value of key in data, old when data holds no such key
FirstOr(data, key, old) == IF Has(data, key) THEN Get(data, key)[1] ELSE old

WithoutFiles(r) == bindData(NewBinder, typ, pre, r.mpValue, DefaultFormTagName, <<>>)

C11_FileFields ==
    (/\ typ \in AcceptedFileTypes /\ op = "BindBody" /\ dlg = "multipart"
     /\ req.mpErr = "" /\ req.mpFile # <<>>)
    => IF Has(req.mpFile, "file")
       THEN /\ err = ""
            /\ val.File = FilesAs(FieldNamed(typ, "File").typ, Get(req.mpFile, "file"))
            /\ val.Title = FirstOr(req.mpValue, "title", pre.Title)
            /\ val.After = FirstOr(req.mpValue, "after", pre.After)
       ELSE /\ val = WithoutFiles(req).val
            /\ err = WithoutFiles(req).err
            /\ FieldKeys(req.mpValue, "file") = {} => val.File = pre.File
            /\ (typ = UploadPtrType /\ Has(req.mpValue, "file")) => err = ErrUnknownType

\* two files under the key file and a text value under the same key: the
\* list of file headers holds both files in their order, the call has not
\* failed and the field after it is bound
C11_Witness ==
    /\ typ = UploadSliceType /\ op = "BindBody" /\ dlg = "multipart"
    /\ pre = Zero(UploadSliceType)
    /\ req.mpFile = <<E("file", <<Upload("a.txt"), Upload("b.txt")>>)>>
    /\ req.mpValue = <<E("after", <<"z">>), E("file", <<"text">>)>>
    /\ err = ""
    /\ val.File = <<[Filename |-> "a.txt"], [Filename |-> "b.txt"]>>
    /\ val.After = "z"

\* a file under another key only and a text value under the key file: the
\* value binding has run for the *FileHeader field and failed
C11_WitnessFallback ==
    /\ typ = UploadPtrType /\ op = "BindBody" /\ dlg = "multipart"
    /\ req.mpFile = <<E("other", <<Upload("c.txt")>>)>>
    /\ Has(req.mpValue, "file")
    /\ err = ErrUnknownType /\ val.After = ""

(***************************************************************************)
(* C12.  A record that embeds Base with a tag for the source being bound,   *)
(* by value or through a pointer.  As stated: every bind call of that       *)
(* source returns the error of the tagged anonymous field, and the fields   *)
(* of Base are not bound.                                                   *)
(***************************************************************************)
TaggedEmbedTypes == {EmbedTaggedType, EmbedTaggedPtrType}

\* the call binds one source under a tag that the embedded field carries
BindsTaggedSource(o, d) ==
    \/ o \in {"BindQueryParams", "BindHeaders"}
    \/ o = "BindBody" /\ d \in {"form", "multipart"}

\* the data that such a call hands to bindData
DataOfCall(o, r, d) == IF o = "BindHeaders" THEN r.headers ELSE SourceOf(o, r, d)

C12_TaggedEmbeddedRejected ==
    (typ \in TaggedEmbedTypes /\ BindsTaggedSource(op, dlg))
    => (err = ErrAnonymousTag /\ val.Base = pre.Base)

(***************************************************************************)
(* C12, amended.  The error is returned by the calls whose data is not      *)
(* empty, when Base is embedded by value or through a pointer that is not   *)
(* nil: the field before Base is bound, Base and the field after it are     *)
(* not.  A call with no data returns no error and changes nothing, and an   *)
(* embedded nil pointer is passed over: the call returns no error, the      *)
(* pointer stays nil and the other fields are bound.                        *)
(***************************************************************************)
C12_TaggedEmbeddedReached ==
    (typ \in TaggedEmbedTypes /\ BindsTaggedSource(op, dlg))
    => IF DataOfCall(op, req, dlg) = <<>> THEN err = "" /\ val = pre
       ELSE IF typ = EmbedTaggedPtrType /\ pre.Base.nil
       THEN /\ err = ""
            /\ val.Base = pre.Base
            /\ val.Name = FirstOr(DataOfCall(op, req, dlg), "name", pre.Name)
            /\ val.After = FirstOr(DataOfCall(op, req, dlg), "after", pre.After)
       ELSE /\ err = ErrAnonymousTag
            /\ val.Base = pre.Base
            /\ val.After = pre.After
            /\ val.Name = FirstOr(DataOfCall(op, req, dlg), "name", pre.Name)

\* the query base.id=1&name=n&after=z on the record that embeds Base by
\* value: the error is returned with Name bound and Base and After not
C12_Witness ==
    /\ typ = EmbedTaggedType /\ op = "BindQueryParams" /\ pre = Zero(EmbedTaggedType)
    /\ req.query = <<E("base.id", <<"1">>), E("name", <<"n">>), E("after", <<"z">>)>>
    /\ err = ErrAnonymousTag
    /\ val = [Zero(EmbedTaggedType) EXCEPT !.Name = "n"]

\* the same query on the record that embeds a pointer to Base, the pointer
\* set by the caller
C12_WitnessPointer ==
    /\ typ = EmbedTaggedPtrType /\ op = "BindQueryParams" /\ ~pre.Base.nil
    /\ req.query = <<E("base.id", <<"1">>), E("name", <<"n">>), E("after", <<"z">>)>>
    /\ err = ErrAnonymousTag /\ val.Base = pre.Base /\ val.After = ""

(***************************************************************************)
(* C13.  BindBody on a urlencoded body and BindBody on a multipart body     *)
(* that carry the same keys and values and no file.  As stated: the two     *)
(* calls leave the record in the same state and return the same error,      *)
(* whatever else the request holds.                                         *)
(***************************************************************************)
\* the http request with the same URL and the same values in a body of the
\* other of the two kinds
Twin(h) ==
    [h EXCEPT !.ctype = IF IsFormPost(h) THEN MIMEMultipartForm \o "; boundary=xyz"
                        ELSE MIMEApplicationForm]

TwinBound(h) == BindBody(NewBinder, NewHttpBindableRequest(Twin(h)), typ, pre)

C13_FormBodiesSameState ==
    (typ = TestStructType /\ op = "BindBody") =>
        \A h \in HttpPosts :
            req = NewHttpBindableRequest(h)
            => (val = TwinBound(h).val /\ err = TwinBound(h).err)

(***************************************************************************)
(* C13, amended.  The two calls agree when the URL of the request carries   *)
(* no query.  In every call that returns no error each field tagged form    *)
(* holds the coercion of the first value that the body carries for its key; *)
(* a field whose key the body does not carry is unchanged after a multipart *)
(* body, and after a urlencoded body it holds the coercion of the first     *)
(* value of its key in the query of the URL, unchanged only when the query  *)
(* does not carry the key either.                                           *)
(***************************************************************************)
\* the first value for key that a BindBody on h binds: that of the body,
\* that of the URL after a urlencoded body, none
BoundFrom(h, key) ==
    IF Has(h.values, key) THEN <<Get(h.values, key)[1]>>
    ELSE IF IsFormPost(h) /\ Has(h.query, key) THEN <<Get(h.query, key)[1]>>
    ELSE <<>>

C13_FormBodiesAgree ==
    (typ = TestStructType /\ op = "BindBody") =>
        \A h \in HttpPosts :
            req = NewHttpBindableRequest(h) =>
                /\ h.query = <<>> => (val = TwinBound(h).val /\ err = TwinBound(h).err)
                /\ err = "" =>
                      /\ val.Name = IF BoundFrom(h, "name") = <<>> THEN pre.Name
                                    ELSE BoundFrom(h, "name")[1]
                      /\ val.Email = IF BoundFrom(h, "email") = <<>> THEN pre.Email
                                     ELSE BoundFrom(h, "email")[1]
                      /\ BoundFrom(h, "age") = <<>> => val.Age = pre.Age
                      /\ BoundFrom(h, "age") # <<>> =>
                            /\ BoundFrom(h, "age")[1] \in DOMAIN Numerals
                            /\ val.Age = Numerals[BoundFrom(h, "age")[1]]

\* a urlencoded body name=c&name=d&age=3&age=4 on a URL without a query has
\* been bound as its multipart twin is
C13_Witness ==
    /\ typ = TestStructType /\ op = "BindBody" /\ dlg = "form" /\ err = ""
    /\ pre = Zero(TestStructType)
    /\ req.query = <<>>
    /\ req.form = <<E("age", <<"3", "4">>), E("name", <<"c", "d">>)>>
    /\ val = [Name |-> "c", Age |-> 3, Email |-> ""]
    /\ val = BindBody(NewBinder,
                      [req EXCEPT !.headers = ContentType("multipart/form-data; boundary=xyz"),
                                  !.mpValue = req.form, !.mpErr = ""],
                      typ, pre).val

\* a urlencoded body name=c on the URL ?age=7 has bound the age of the URL
C13_WitnessQuery ==
    /\ typ = TestStructType /\ op = "BindBody" /\ dlg = "form" /\ err = ""
    /\ pre = Zero(TestStructType)
    /\ req.query = <<E("age", <<"7">>)>>
    /\ req.form = <<E("name", <<"c">>), E("age", <<"7">>)>>
    /\ val = [Name |-> "c", Age |-> 7, Email |-> ""]

(***************************************************************************)
(* C14.  The default binder is constructed exactly once and shared: under   *)
(* any interleaving of first calls of GetBinder and GetHttpBinder,          *)
(* NewBinder runs at most once and all the callers that have returned hold  *)
(* the same Binder, and the callers of GetHttpBinder the same HttpBinder.   *)
(***************************************************************************)
Returned(g) == gor[g].pc = "done"

C14_ConstructedOnce ==
    /\ created <= 1
    /\ \A g, h \in Goroutines :
          (Returned(g) /\ Returned(h)) =>
              /\ gor[g].got.binder = gor[h].got.binder
              /\ gor[g].via = gor[h].via => gor[g].got = gor[h].got

\* two goroutines have both found DefaultBinderInstance nil: NewBinder has
\* run twice and the two calls of GetBinder have returned different binders
C14_Witness ==
    /\ created = 2
    /\ Returned(1) /\ Returned(2)
    /\ gor[1].via = "binder" /\ gor[2].via = "binder"
    /\ gor[1].got.binder # gor[2].got.binder

(***************************************************************************)
(* C15.  Each entry point for one source applies that source only: after a  *)
(* call on User, every field that carries no tag of the source of the call  *)
(* holds what it held before, and the call fails only when the data of its  *)
(* own source fails (the path parameters and the headers of the requests    *)
(* hold nothing that fails, the query fails on a value of age that is no    *)
(* numeral).                                                                *)
(***************************************************************************)
PathOps == {"BindPathParams", "BindPath"}
QueryOps == {"BindQueryParams", "BindQuery"}
HeaderOps == {"BindHeaders", "BindHeader"}

\* the tags under which the source of an entry point is bound
SourceTags(o) ==
    CASE o \in PathOps -> {DefaultParamTagName}
      [] o \in QueryOps -> {DefaultQueryTagName}
      [] o \in HeaderOps -> {DefaultHeaderTagName}
      [] o = "BindBody" -> {DefaultFormTagName, "json", "xml"}

TaggedFor(f, tags) == \E tg \in tags : TagGet(f, tg) # ""

\* the data of the source of the entry point holds a value that fails
OwnSourceFails(o, r) ==
    \/ o = "BindBody"
    \/ o \in QueryOps /\ Has(r.query, "age") /\ Get(r.query, "age")[1] \notin DOMAIN Numerals

C15_OnlyOwnSource ==
    (typ = UserType /\ op \in PathOps \cup QueryOps \cup HeaderOps \cup {"BindBody"})
    => /\ \A i \in 1..Len(typ.fields) :
             ~TaggedFor(typ.fields[i], SourceTags(op))
             => val[typ.fields[i].name] = pre[typ.fields[i].name]
       /\ err # "" => OwnSourceFails(op, req)

\* BindHeaders on the headers Name: hn and X-Header-Value: v has bound Name,
\* which carries no header tag, and not HeaderValue
C15_Witness ==
    /\ typ = UserType /\ op = "BindHeaders" /\ pre = Zero(UserType) /\ err = ""
    /\ req.headers = <<E("Name", <<"hn">>), E("X-Header-Value", <<"v">>)>>
    /\ val.Name = "hn" /\ val.HeaderValue = ""

\* BindPath on a request whose query holds age=7 has bound Age, which
\* carries no param tag, and has run all the stages of Bind
C15_WitnessBindPath ==
    /\ typ = UserType /\ op = "BindPath" /\ pre = Zero(UserType) /\ err = ""
    /\ Lookup(req.query, "age") = <<"7">>
    /\ val.Age = 7
    /\ ran = <<"BindPathParams", "BindQueryParams", "BindBody">>

\* BindPath has failed on a value of the body form
C15_WitnessForeignFailure ==
    /\ typ = UserType /\ op = "BindPath" /\ err = ErrSyntaxInt
    /\ req.query = <<>> /\ dlg = "form"

(***************************************************************************)
(* C16.  The direct value of a tagged field: the values of the key that is  *)
(* the tag as given when the source holds it, whether it also holds a key   *)
(* that differs in case or not and whichever comes first; otherwise the     *)
(* values of the first key that equals the tag ignoring case; and when no   *)
(* key matches either way the field holds what it held and the call         *)
(* returns no error.                                                        *)
(***************************************************************************)
\* the keys of the sources that equal a tag ignoring case
Spellings(tagKey) ==
    CASE tagKey = "name" -> {"name", "NAME", "Name"}
      [] tagKey = "Kind" -> {"Kind", "kind", "KIND"}

\* the places of data whose key is a spelling of the tag
SpelledAt(data, tagKey) == {j \in 1..Len(data) : data[j].k \in Spellings(tagKey)}

Least(S) == CHOOSE n \in S : \A m \in S : n <= m

Resolved(data, tagKey, old) ==
    IF \E j \in 1..Len(data) : data[j].k = tagKey
    THEN data[CHOOSE j \in 1..Len(data) : data[j].k = tagKey].v[1]
    ELSE IF SpelledAt(data, tagKey) # {}
    THEN data[Least(SpelledAt(data, tagKey))].v[1]
    ELSE old

C16_ValueLookup ==
    (/\ typ = CasedType
     /\ \/ op = "BindQueryParams"
        \/ op = "BindBody" /\ dlg = "form")
    => /\ err = ""
       /\ val.Name = Resolved(SourceOf(op, req, dlg), "name", pre.Name)
       /\ val.Kind = Resolved(SourceOf(op, req, dlg), "Kind", pre.Kind)

\* the query NAME=b&Name=c&KIND=K&Kind=x: Name is bound from the first key
\* that equals name ignoring case, Kind from the key Kind although KIND
\* comes before it
C16_Witness ==
    /\ typ = CasedType /\ op = "BindQueryParams" /\ pre = Zero(CasedType)
    /\ req.query = <<E("NAME", <<"b">>), E("Name", <<"c">>), E("KIND", <<"K">>),
                     E("Kind", <<"x">>)>>
    /\ err = "" /\ val = [Name |-> "b", Kind |-> "x"]

(***************************************************************************)
(* C17.  When a source holds repeated flat values under the exact key t of  *)
(* a list field and indexed keys t[i] for it as well, the field ends as the *)
(* list built from the indexed keys: the flat values do not replace it.     *)
(***************************************************************************)
\* data without the entries of the key k
RECURSIVE WithoutKey(_, _)
WithoutKey(data, k) ==
    IF data = <<>> THEN <<>>
    ELSE IF Head(data).k = k THEN WithoutKey(Tail(data), k)
    ELSE <<Head(data)>> \o WithoutKey(Tail(data), k)

\* data holds the key t with numerals and, next to it, indexed keys for t
\* that make an indexed source
FlatAndIndexed(data) ==
    /\ \E j \in 1..Len(data) :
          data[j].k = "t" /\ \A n \in 1..Len(data[j].v) : data[j].v[n] \in DOMAIN Numerals
    /\ IndexedSource(WithoutKey(data, "t"))

C17_IndexedTakesPrecedence ==
    (/\ typ = ListsType /\ op \in {"BindQueryParams", "BindBody"} /\ pre.T = <<>>
     /\ FlatAndIndexed(SourceOf(op, req, dlg)))
    => (err = "" /\ val.T = ListFrom(WithoutKey(SourceOf(op, req, dlg), "t")))

\* the query t=7&t=8&t[0]=3: the list built from t[0] has been replaced by
\* the list of the flat values
C17_Witness ==
    /\ typ = ListsType /\ op = "BindQueryParams" /\ pre.T = <<>>
    /\ req.query = <<E("t", <<"7", "8">>), E("t[0]", <<"3">>)>>
    /\ err = "" /\ val.T = <<7, 8>>

\* the query t=7&t[2]=3: the three elements of the indexed list are gone
C17_WitnessShorter ==
    /\ typ = ListsType /\ op = "BindQueryParams" /\ pre.T = <<>>
    /\ req.query = <<E("t", <<"7">>), E("t[2]", <<"3">>)>>
    /\ err = "" /\ val.T = <<7>>

(***************************************************************************)
(* C18.  For the list field tagged t, a source that holds a key addressing  *)
(* it with an index that is no number (t[abc], t.abc, t.x, or the key of    *)
(* several groups t[0][1]) makes the bind call return the error of the      *)
(* index check.                                                             *)
(***************************************************************************)
NonNumericKeys == {"t[abc]", "t.abc", "t.x", "t[0][1]"}

NonNumeric(data) == \E j \in 1..Len(data) : data[j].k \in NonNumericKeys

C18_NonNumericIndexRejected ==
    (/\ typ = ListsType /\ op \in {"BindQueryParams", "BindBody"}
     /\ NonNumeric(SourceOf(op, req, dlg)))
    => err = ErrInvalidIndex

\* the query t[abc]=1: the call has returned nil and the list is empty
C18_Witness ==
    /\ typ = ListsType /\ op = "BindQueryParams" /\ pre.T = <<>>
    /\ req.query = <<E("t[abc]", <<"1">>)>>
    /\ err = "" /\ val = pre

\* the query t[abc]=1&t[0]=2: the key t[abc] is passed over and t[0] bound
C18_WitnessIgnored ==
    /\ typ = ListsType /\ op = "BindQueryParams" /\ pre.T = <<>>
    /\ req.query = <<E("t[abc]", <<"1">>), E("t[0]", <<"2">>)>>
    /\ err = "" /\ val.T = <<2>>

\* the keys t.abc and t[0][1] are rejected
C18_WitnessRejected ==
    /\ typ = ListsType /\ op = "BindQueryParams"
    /\ req.query \in {<<E("t.abc", <<"1">>)>>, <<E("t[0][1]", <<"1">>)>>}
    /\ err = ErrInvalidIndex /\ val = pre

(***************************************************************************)
(* C19.  A destination that is neither a struct nor a map of strings to     *)
(* string, []string or interface{} (map[string]int, int) makes a call that  *)
(* binds data under the form tag return an error, and is left unchanged     *)
(* without an error by the calls that bind the path, the query or the       *)
(* headers, BindHeaders included.                                           *)
(***************************************************************************)
IncompatibleTypes == {TMap(TInt)} \cup ScalarTypes

C19_IncompatibleDestination ==
    typ \in IncompatibleTypes =>
        /\ (op = "BindBody" /\ dlg \in {"form", "multipart"}
            /\ SourceOf(op, req, dlg) # <<>>) => err # ""
        /\ op \in {"BindPathParams", "BindQueryParams", "BindHeaders"}
              => (err = "" /\ val = pre)

\* a urlencoded body bound to a map[string]int: the call has returned nil
C19_Witness ==
    /\ typ = TMap(TInt) /\ op = "BindBody" /\ dlg = "form"
    /\ req.form = <<E("a", <<"9">>)>>
    /\ err = "" /\ val = pre

\* the headers bound to an int: the call has failed
C19_WitnessHeaders ==
    /\ typ = TInt /\ op = "BindHeaders" /\ req.headers # <<>>
    /\ err = ErrNotStruct /\ val = pre

\* where the code does as stated: a urlencoded body bound to an int is an
\* error, a query bound to it is none
C19_WitnessScalar ==
    /\ typ = TInt /\ val = pre
    /\ \/ op = "BindBody" /\ dlg = "form" /\ err = ErrNotStruct
       \/ op = "BindQueryParams" /\ req.query # <<>> /\ err = ""

(***************************************************************************)
(* C20.  getPrefixedFieldNames holds an entry for the key k exactly when k  *)
(* starts with prefix and the separator (the entry is k without them) or k  *)
(* is prefix followed at once by bracket groups of the pattern (the entry   *)
(* is the groups joined by the separator): for the prefix a, the keys       *)
(* ab[0], ab.x[0] and ax[1] have no entry.                                  *)
(***************************************************************************)
\* what the statement gives for the prefix a and the keys of the requests:
\* the rewritten key, or no entry
StatedForA ==
    [k \in {"a[0]", "a.1", "a[0][1]", "a", "ab[0]", "ab[1]", "ab.x[0]", "ax[1]", "b[0]"} |->
        CASE k = "a[0]" -> <<"0">>
          [] k = "a.1" -> <<"1">>
          [] k = "a[0][1]" -> <<"0.1">>
          [] OTHER -> <<>>]

RECURSIVE StatedNames(_)
StatedNames(keys) ==
    IF keys = <<>> THEN <<>>
    ELSE (IF StatedForA[Head(keys)] = <<>> THEN <<>>
          ELSE <<[k |-> Head(keys), v |-> StatedForA[Head(keys)][1]]>>)
         \o StatedNames(Tail(keys))

KeysOf(data) == [j \in 1..Len(data) |-> data[j].k]

C20_PrefixedFieldNames ==
    (typ = PrefixedType /\ op \in {"BindQueryParams", "BindBody"})
    => getPrefixedFieldNames("a", KeysOf(SourceOf(op, req, dlg)), ArrayMatcherRegexp,
                             DefaultDeepObjectSeparator)
       = StatedNames(KeysOf(SourceOf(op, req, dlg)))

\* the query ab[0]=5: the key has an entry for the prefix a, and the field
\* tagged a has been bound from it like the field tagged ab
C20_Witness ==
    /\ typ = PrefixedType /\ op = "BindQueryParams" /\ pre = Zero(PrefixedType)
    /\ req.query = <<E("ab[0]", <<"5">>)>>
    /\ getPrefixedFieldNames("a", <<"ab[0]">>, ArrayMatcherRegexp,
                             DefaultDeepObjectSeparator)
       = <<[k |-> "ab[0]", v |-> "0"]>>
    /\ err = "" /\ val = [A |-> <<5>>, Ab |-> <<5>>]

\* the query ax[1]=3: the group that is not next to the prefix a gives the
\* entry 1, and the field tagged a holds the value at index 1
C20_WitnessNotAdjacent ==
    /\ typ = PrefixedType /\ op = "BindQueryParams" /\ pre = Zero(PrefixedType)
    /\ req.query = <<E("ax[1]", <<"3">>)>>
    /\ err = "" /\ val = [A |-> <<0, 3>>, Ab |-> <<>>]

\* the query ab.x[0]=5: bound to the field tagged a before the field tagged
\* ab rejects the index x[0]
C20_WitnessDotted ==
    /\ typ = PrefixedType /\ op = "BindQueryParams" /\ pre = Zero(PrefixedType)
    /\ req.query = <<E("ab.x[0]", <<"5">>)>>
    /\ err = ErrInvalidIndex /\ val = [A |-> <<5>>, Ab |-> <<>>]

\* where the statement holds: a[0], a.1 and a[0][1] have their entries and
\* a and b[0] have none
C20_WitnessStated ==
    /\ typ = PrefixedType /\ op = "BindQueryParams"
    /\ req.query = <<E("b[0]", <<"1">>), E("a", <<"4">>)>>
    /\ getPrefixedFieldNames("a", <<"a[0]", "a.1", "a[0][1]", "a", "b[0]">>,
                             ArrayMatcherRegexp, DefaultDeepObjectSeparator)
       = <<[k |-> "a[0]", v |-> "0"], [k |-> "a.1", v |-> "1"],
           [k |-> "a[0][1]", v |-> "0.1"]>>

(***************************************************************************)
(* C21.  For the struct field tagged p whose inner fields are tagged s and  *)
(* n, the inner field is bound from the key p.s (p.n) and equally from the  *)
(* key p[s] (p[n]) and from no other key: a key s at the top level, or any  *)
(* other key, leaves it as it was; and every entry of the projected map     *)
(* holds the values of one such key of the source, unchanged.               *)
(***************************************************************************)
\* the places of data that hold the key p.name or p[name]
InnerAt(data, name) ==
    { j \in 1..Len(data) : data[j].k \in {"p." \o name, "p[" \o name \o "]"} }

\* the inner field holds new: the first value of its key when there is one,
\* what it held otherwise
InnerBound(data, name, old, new, coerced) ==
    IF InnerAt(data, name) = {} THEN new = old
    ELSE \E j \in InnerAt(data, name) : new = coerced[data[j].v[1]]

\* every entry of the projected map is the entry of a key p.x or p[x]
ProjectedFrom(data, projected) ==
    \A i \in 1..Len(projected) :
        \E j \in 1..Len(data) :
            /\ data[j].k \in {"p." \o projected[i].k, "p[" \o projected[i].k \o "]"}
            /\ data[j].v = projected[i].v

C21_NestedFromProjected ==
    (/\ typ = OuterType
     /\ \/ op = "BindQueryParams"
        \/ op = "BindBody" /\ dlg = "form")
    => /\ err = ""
       /\ InnerBound(SourceOf(op, req, dlg), "s", pre.P.S, val.P.S,
                     [v \in {"a", "b"} |-> v])
       /\ InnerBound(SourceOf(op, req, dlg), "n", pre.P.N, val.P.N,
                     [v \in {"7"} |-> 7])
       /\ ProjectedFrom(SourceOf(op, req, dlg),
                        trimData("p", SourceOf(op, req, dlg), ArrayNotationRegexp,
                                 DefaultDeepObjectSeparator))

\* the query pq[s]=x, a key of another name: the inner field tagged s of the
\* field tagged p has been bound from it
C21_Witness ==
    /\ typ = OuterType /\ op = "BindQueryParams" /\ pre = Zero(OuterType)
    /\ req.query = <<E("pq[s]", <<"x">>)>>
    /\ err = "" /\ val = [P |-> [S |-> "x", N |-> 0], S |-> ""]

\* where the code does as stated: the query s=c&p.s=a&p.s=a2&p[n]=7 binds
\* the inner fields from p.s and p[n] and the outer field from s
C21_WitnessStated ==
    /\ typ = OuterType /\ op = "BindQueryParams" /\ pre = Zero(OuterType)
    /\ req.query = <<E("s", <<"c">>), E("p.s", <<"a", "a2">>), E("p[n]", <<"7">>)>>
    /\ err = "" /\ val = [P |-> [S |-> "a", N |-> 7], S |-> "c"]

\* the query s=c: the inner field tagged s is as it was
C21_WitnessTopLevel ==
    /\ typ = OuterType /\ op = "BindQueryParams" /\ pre = Zero(OuterType)
    /\ req.query = <<E("s", <<"c">>)>>
    /\ err = "" /\ val = [P |-> [S |-> "", N |-> 0], S |-> "c"]

(***************************************************************************)
(* C22.  For a tagged field whose key the source holds, the decoders are    *)
(* tried in one order and one only runs: UnmarshalParams with all the       *)
(* values when the field exposes it, else UnmarshalParam with the first     *)
(* value, else UnmarshalText with the first value; the coercion of the      *)
(* first value, or the list of the coerced values, only when the field      *)
(* exposes none; and the error of a decoder ends the call: the fields       *)
(* before the failing one are bound, the others are as they were.           *)
(***************************************************************************)
DecodedNames == <<"All", "Single", "Text", "Multi", "Plain", "Ptr", "List", "IDs">>

DecodedKey ==
    [All |-> "all", Single |-> "single", Text |-> "text", Multi |-> "multi",
     Plain |-> "plain", Ptr |-> "ptr", List |-> "list", IDs |-> "ids"]

\* the values of the key of the i-th field, <<>> when the source has none
Sent(data, i) ==
    IF \E j \in 1..Len(data) : data[j].k = DecodedKey[DecodedNames[i]]
    THEN data[CHOOSE j \in 1..Len(data) : data[j].k = DecodedKey[DecodedNames[i]]].v
    ELSE <<>>

Commas(v) == IF Len(v) = 1 THEN v[1] ELSE v[1] \o "," \o v[2]

HasBad(v) == \E n \in 1..Len(v) : v[n] = "bad"

\* the error that the decoder of the i-th field returns on the values v,
\* "" when it returns none
Refused(i, v) ==
    CASE DecodedNames[i] \in {"All", "Multi", "IDs"} ->
             IF HasBad(v) THEN "UnmarshalParams: bad" ELSE ""
      [] DecodedNames[i] \in {"Single", "Ptr"} ->
             IF v[1] = "bad" THEN "UnmarshalParam: bad" ELSE ""
      [] DecodedNames[i] = "List" -> IF HasBad(v) THEN "UnmarshalParam: bad" ELSE ""
      [] DecodedNames[i] = "Text" -> IF v[1] = "bad" THEN "UnmarshalText: bad" ELSE ""
      [] OTHER -> ""

\* what the i-th field holds after its decoder, or the coercion, has been
\* given the values v, old being what it held
Decoded(i, v, old) ==
    CASE DecodedNames[i] \in {"All", "Multi"} -> old \o "Params(" \o Commas(v) \o ")"
      [] DecodedNames[i] = "Single" -> old \o "Param(" \o v[1] \o ")"
      [] DecodedNames[i] = "Text" -> old \o "Text(" \o v[1] \o ")"
      [] DecodedNames[i] = "Plain" -> v[1]
      [] DecodedNames[i] = "Ptr" ->
             Ref((IF old.nil THEN "" ELSE old.v) \o "Param(" \o v[1] \o ")")
      [] DecodedNames[i] = "List" -> [n \in 1..Len(v) |-> "Param(" \o v[n] \o ")"]
      [] DecodedNames[i] = "IDs" -> Append(old, "Params(" \o Commas(v) \o ")")

\* the fields whose decoder fails on what the source sends
RefusedAt(data) ==
    { i \in 1..Len(DecodedNames) : Sent(data, i) # <<>> /\ Refused(i, Sent(data, i)) # "" }

\* the i-th field after a call that ended at the field stop (at none when
\* stop is beyond the last): bound before stop, as it was from stop on,
\* but that a nil pointer has been given storage at stop
DecodedField(data, i, stop, old) ==
    IF Sent(data, i) = <<>> \/ i > stop THEN old
    ELSE IF i < stop THEN Decoded(i, Sent(data, i), old)
    ELSE IF DecodedNames[i] = "Ptr" /\ old.nil THEN Ref("")
    ELSE old

DecodedAs(data, stop) ==
    /\ err = (IF stop > Len(DecodedNames) THEN "" ELSE Refused(stop, Sent(data, stop)))
    /\ \A i \in 1..Len(DecodedNames) :
          val[DecodedNames[i]] = DecodedField(data, i, stop, pre[DecodedNames[i]])

\* the sources that address the list IDs by an index as well are left to
\* the indexed list path, which comes before the value lookup
NoIndexKey(data) == \A j \in 1..Len(data) : data[j].k # "ids[0]"

C22_WitnessLists ==
    /\ typ = DecodedType /\ op = "BindQueryParams" /\ pre = Zero(DecodedType)
    /\ err = ""
    /\ val.Ptr = Ref("Param(a)") /\ val.List = <<"Param(a)", "Param(b)">>
    /\ val.IDs = <<"Params(a,b)">>

\* a decoder has failed: All, before it, is bound and Plain, after it, is not
C22_WitnessAbort ==
    /\ typ = DecodedType /\ op = "BindQueryParams" /\ pre = Zero(DecodedType)
    /\ req.query = <<E("single", <<"bad", "a">>), E("plain", <<"c">>), E("all", <<"a">>)>>
    /\ err = "UnmarshalParam: bad"
    /\ val.All = "Params(a)" /\ val.Single = "" /\ val.Plain = ""

(***************************************************************************)
(* C23.  A struct field that exposes UnmarshalParam is bound only when it   *)
(* carries a tag: without a tag it is neither recursed into nor decoded;    *)
(* with a tag whose key the source holds, UnmarshalParam is called with the *)
(* first value of the key (and its error is the error of the call).        *)
(***************************************************************************)
\* the values of the key when in data, <<>> without the key
WhenSent(data) ==
    IF \E j \in 1..Len(data) : data[j].k = "when"
    THEN data[CHOOSE j \in 1..Len(data) : data[j].k = "when"].v
    ELSE <<>>

C23_DecodingStruct ==
    (/\ typ = EventType
     /\ \/ op = "BindQueryParams"
        \/ op = "BindBody" /\ dlg = "form")
    => /\ val.Untagged = pre.Untagged
       /\ WhenSent(SourceOf(op, req, dlg)) # <<>> =>
             IF WhenSent(SourceOf(op, req, dlg))[1] = "bad"
             THEN err = "UnmarshalParam: bad"
             ELSE /\ err = ""
                  /\ val.Tagged.At
                       = pre.Tagged.At \o "Param("
                           \o WhenSent(SourceOf(op, req, dlg))[1] \o ")"

\* the query when=t1&when=t2: the call has returned nil and the tagged
\* struct is as it was; UnmarshalParam has not been called
C23_Witness ==
    /\ typ = EventType /\ op = "BindQueryParams" /\ pre = Zero(EventType)
    /\ req.query = <<E("when", <<"t1", "t2">>)>>
    /\ err = "" /\ val = pre

\* the query when.at=z: the tagged struct has been recursed into
C23_WitnessRecursed ==
    /\ typ = EventType /\ op = "BindQueryParams" /\ pre = Zero(EventType)
    /\ req.query = <<E("when.at", <<"z">>)>>
    /\ err = "" /\ val.Tagged = [At |-> "z"]

\* where the code does as stated: the query at=x leaves the untagged
\* decoding struct alone and binds the ordinary one, and the pointer to a
\* decoding struct is decoded from the first value of its key
C23_WitnessStated ==
    /\ typ = EventType /\ op = "BindQueryParams" /\ pre = Zero(EventType)
    /\ \/ /\ req.query = <<E("at", <<"x">>)>>
          /\ val.Untagged = [At |-> ""] /\ val.Plain = [At |-> "x"]
       \/ /\ req.query = <<E("pwhen", <<"t3", "t4">>)>>
          /\ val.Ptr = Ref([At |-> "Param(t3)"])
    /\ err = ""

(***************************************************************************)
(* C24.  Coercing the empty string never fails: a leaf of a signed or an    *)
(* unsigned integer kind becomes 0, a boolean false, a floating point 0.0   *)
(* and a string the empty string, for a single field and for each element  *)
(* of a list alike.                                                         *)
(***************************************************************************)
\* what the statement gives for the i-th kind of ScalarKinds
StatedEmpty(i) ==
    CASE ScalarNames[i] = "B" -> FALSE
      [] ScalarNames[i] \in {"F32", "F64"} -> [float |-> "0"]
      [] ScalarNames[i] = "S" -> ""
      [] OTHER -> 0

\* the values of the key k in data, <<>> without the key
ValuesOf(data, k) ==
    IF \E j \in 1..Len(data) : data[j].k = k
    THEN data[CHOOSE j \in 1..Len(data) : data[j].k = k].v
    ELSE <<>>

\* no value of data is a malformed numeral
WellFormed(data) ==
    \A j \in 1..Len(data) : \A n \in 1..Len(data[j].v) : data[j].v[n] \in {"", "1"}

EmptyIsZero(data) ==
    /\ err = ""
    /\ ValuesOf(data, "v") # <<>> /\ ValuesOf(data, "v")[1] = ""
       => \A i \in 1..Len(ScalarNames) : val[ScalarNames[i]] = StatedEmpty(i)
    /\ \A n \in 1..Len(ValuesOf(data, "l")) :
          ValuesOf(data, "l")[n] = ""
          => \A i \in 1..Len(ScalarNames) : val["L" \o ScalarNames[i]][n] = StatedEmpty(i)
    /\ ValuesOf(data, "l[1]") = <<"">>
       => \A i \in 1..Len(ScalarNames) : val["L" \o ScalarNames[i]][2] = StatedEmpty(i)

C24_EmptyStringIsZero ==
    (/\ typ = NumbersType
     /\ \/ op = "BindQueryParams"
        \/ op = "BindBody" /\ dlg = "form"
     /\ WellFormed(SourceOf(op, req, dlg)))
    => EmptyIsZero(SourceOf(op, req, dlg))

\* every single field held the value of 1 and holds the zero of its kind
\* after the query v=
C24_Witness ==
    /\ typ = NumbersType /\ op = "BindQueryParams"
    /\ req.query = <<E("v", <<"">>)>>
    /\ pre.I8 = 1 /\ pre.U64 = 1 /\ pre.B = TRUE /\ pre.F32 = [float |-> "1"]
    /\ pre.S = "1"
    /\ err = ""
    /\ val.I8 = 0 /\ val.U64 = 0 /\ val.B = FALSE /\ val.F32 = [float |-> "0"]
    /\ val.S = ""

\* the elements of the lists: the query l=1&l= and the query l[1]= over the
\* lists that held two values of 1
C24_WitnessList ==
    /\ typ = NumbersType /\ op = "BindQueryParams"
    /\ req.query = <<E("l", <<"1", "">>)>>
    /\ err = ""
    /\ val.LI = <<1, 0>> /\ val.LU8 = <<1, 0>> /\ val.LB = <<TRUE, FALSE>>
    /\ val.LF64 = <<[float |-> "1"], [float |-> "0"]>> /\ val.LS = <<"1", "">>

C24_WitnessIndexed ==
    /\ typ = NumbersType /\ op = "BindQueryParams"
    /\ req.query = <<E("l[1]", <<"">>)>>
    /\ pre.LI16 = <<1, 1>> /\ pre.LB = <<TRUE, TRUE>>
    /\ err = ""
    /\ val.LI16 = <<1, 0>> /\ val.LB = <<TRUE, FALSE>> /\ val.LU = <<1, 0>>

(***************************************************************************)
(* C25.  Integer coercion honours the bit width of the destination kind: a  *)
(* decimal string is accepted for a signed kind of width w exactly when its *)
(* value lies in [-2^(w-1), 2^(w-1)-1] and for an unsigned kind exactly     *)
(* when it lies in [0, 2^w-1]; a value outside the range and a malformed    *)
(* numeral return the parse error and leave the field as it was (never a    *)
(* wrapped or truncated value); a kind outside the supported scalar kinds   *)
(* returns the error of the unknown kind.                                   *)
(***************************************************************************)
WidthOf ==
    [i8 |-> 8, i16 |-> 16, i32 |-> 32, i64 |-> 64, i |-> 64,
     u8 |-> 8, u16 |-> 16, u32 |-> 32, u64 |-> 64, u |-> 64]

SignedKey(k) == Char(k, 1) = "i"

RECURSIVE Pow2(_)
Pow2(n) == IF n = 0 THEN 1 ELSE 2 * Pow2(n - 1)

\* the digits of the numeral s of the key k: what follows the sign of a
\* numeral for a signed kind, and all of s for an unsigned kind, whose
\* numerals have no sign
DigitsOf(k, s) ==
    IF SignedKey(k) /\ Len(s) > 0 /\ Char(s, 1) \in {"+", "-"}
    THEN SubSeq(s, 2, Len(s)) ELSE s

IsDecimal(k, s) == AllDigits(DigitsOf(k, s))

\* the value of a decimal of at most MaxDigits digits
ValueOf(k, s) ==
    IF Char(s, 1) = "-" THEN 0 - DigitsValue(DigitsOf(k, s)) ELSE DigitsValue(DigitsOf(k, s))

\* the decimals sent to the kinds of 32 and 64 bits that lie in the range of
\* their kind: 2^31-1, -2^31, 2^63-1, -2^63, 2^32-1 and 2^64-1
WideInRange ==
    { <<"i32", "2147483647">>, <<"i32", "-2147483648">>,
      <<"i64", "9223372036854775807">>, <<"i64", "-9223372036854775808">>,
      <<"i", "9223372036854775807">>, <<"i", "-9223372036854775808">>,
      <<"u32", "4294967295">>,
      <<"u64", "18446744073709551615">>, <<"u", "18446744073709551615">> }

StatedInRange(k, s) ==
    IF WidthOf[k] > 16 THEN <<k, s>> \in WideInRange
    ELSE IF SignedKey(k)
    THEN ValueOf(k, s) >= 0 - Pow2(WidthOf[k] - 1) /\ ValueOf(k, s) <= Pow2(WidthOf[k] - 1) - 1
    ELSE ValueOf(k, s) >= 0 /\ ValueOf(k, s) <= Pow2(WidthOf[k]) - 1

\* the integer that the field holds for an accepted decimal
StatedValue(k, s) ==
    IF WidthOf[k] > 16 THEN [big |-> s] ELSE ValueOf(k, s)

StatedParseError(k) == IF SignedKey(k) THEN ErrSyntaxInt ELSE ErrSyntaxUint

\* the outcome for the field of the i-th kind and the numeral s
WidthHonoured(i, s) ==
    IF WidthKeys[i] = "c"
    THEN err = ErrUnknownType /\ val = pre
    ELSE IF IsDecimal(WidthKeys[i], s) /\ StatedInRange(WidthKeys[i], s)
    THEN /\ err = ""
         /\ val[WidthNames[i]] = StatedValue(WidthKeys[i], s)
         /\ \A n \in DOMAIN val : n # WidthNames[i] => val[n] = pre[n]
    ELSE err = StatedParseError(WidthKeys[i]) /\ val = pre

WidthIndex(k) == CHOOSE i \in 1..Len(WidthKeys) : WidthKeys[i] = k

C25_BitWidthHonoured ==
    (/\ typ \in WidthsTypes
     /\ \/ op = "BindQueryParams"
        \/ op = "BindBody" /\ dlg = "form"
     /\ SourceOf(op, req, dlg) # <<>>)
    => WidthHonoured(WidthIndex(SourceOf(op, req, dlg)[1].k), SourceOf(op, req, dlg)[1].v[1])

\* the ends of the ranges are accepted: 127 and then -128 for int8
C25_Witness ==
    /\ typ = SignedType /\ op = "BindQueryParams"
    /\ req.query = <<E("i8", <<"-128">>)>>
    /\ pre.I8 = 127
    /\ err = "" /\ val.I8 = -128

\* 128 is refused for int8 and the field is neither 128 nor -128
C25_WitnessOutOfRange ==
    /\ typ = SignedType /\ op = "BindQueryParams"
    /\ req.query = <<E("i8", <<"128">>)>>
    /\ pre.I8 = 127
    /\ err = ErrSyntaxInt /\ val.I8 = 127

\* the widest kinds: 2^64-1 is accepted for uint64
C25_WitnessWide ==
    /\ typ = UnsignedType /\ op = "BindQueryParams"
    /\ req.query = <<E("u64", <<"18446744073709551615">>)>>
    /\ err = "" /\ val.U64 = [big |-> "18446744073709551615"]

\* and 2^63 is refused for int64
C25_WitnessWideRefused ==
    /\ typ = SignedType /\ op = "BindQueryParams"
    /\ req.query = <<E("i64", <<"9223372036854775808">>)>>
    /\ err = ErrSyntaxInt /\ val = pre

\* a numeral with a sign is malformed for an unsigned kind
C25_WitnessUnsigned ==
    /\ typ = UnsignedType /\ op = "BindQueryParams"
    /\ req.query = <<E("u8", <<"+1">>)>>
    /\ pre.U8 = 255
    /\ err = ErrSyntaxUint /\ val.U8 = 255

C25_WitnessUnknownKind ==
    /\ typ = SignedType /\ op = "BindQueryParams"
    /\ req.query = <<E("c", <<"1">>)>>
    /\ err = ErrUnknownType /\ val = pre

(***************************************************************************)
(* C26.  A field that is a reference, of one level, to T, for T a scalar or *)
(* a list, is bound as a field of type T is from the same source (single    *)
(* value, repeated flat values and the indexed notation t[i] alike),        *)
(* storage being given to a nil reference; when the source supplies         *)
(* nothing for the field, a nil reference stays nil.                        *)
(***************************************************************************)
\* what the reference x to a value of type t stands for: the zero value
\* when it is nil
Behind(t, x) == IF x.nil THEN Zero(t) ELSE x.v

\* the references and the plain fields of the same keys hold the same
SameAsPlain(v) ==
    /\ Behind(TInt, v.P) = v.N
    /\ Behind(TString, v.PS) = v.S
    /\ Behind(TSlice(TInt), v.PL) = v.L

\* the keys of data that address the field tagged k
Addresses(data, k) ==
    \E j \in 1..Len(data) : data[j].k = k \/ HasPrefix(data[j].k, k \o "[")

C26_OptionalAsPlain ==
    (/\ typ = OptionalType
     /\ \/ op = "BindQueryParams"
        \/ op = "BindBody" /\ dlg = "form"
     /\ SameAsPlain(pre))
    => /\ err = "" => SameAsPlain(val)
       /\ (pre.P.nil /\ ~Addresses(SourceOf(op, req, dlg), "n")) => val.P.nil
       /\ (pre.PS.nil /\ ~Addresses(SourceOf(op, req, dlg), "s")) => val.PS.nil
       /\ (pre.PL.nil /\ ~Addresses(SourceOf(op, req, dlg), "t")) => val.PL.nil

\* the query t[0]=1 binds the list and leaves the reference to a list nil
C26_Witness ==
    /\ typ = OptionalType /\ op = "BindQueryParams" /\ pre = Zero(OptionalType)
    /\ req.query = <<E("t[0]", <<"1">>)>>
    /\ err = "" /\ val.L = <<1>> /\ val.PL.nil

\* t=7&t=8&t[0]=3: the list is bound by both paths, the reference by the
\* flat one alone
C26_WitnessBoth ==
    /\ typ = OptionalType /\ op = "BindQueryParams" /\ pre = Zero(OptionalType)
    /\ req.query = <<E("t", <<"7", "8">>), E("t[0]", <<"3">>)>>
    /\ err = "" /\ val.L = <<7, 8>> /\ val.PL = Ref(<<7, 8>>)

\* where the code does as stated: a single value, repeated flat values, and
\* a key of another field
C26_WitnessStated ==
    /\ typ = OptionalType /\ op = "BindQueryParams" /\ pre = Zero(OptionalType)
    /\ req.query = <<E("t", <<"3">>), E("n", <<"5">>)>>
    /\ err = ""
    /\ val.P = Ref(5) /\ val.N = 5 /\ val.PL = Ref(<<3>>) /\ val.L = <<3>>
    /\ val.PS.nil

\* a value that does not parse: the nil reference has been given storage
\* before the coercion failed
C26_WitnessFailed ==
    /\ typ = OptionalType /\ op = "BindQueryParams" /\ pre = Zero(OptionalType)
    /\ req.query = <<E("n", <<"x">>)>>
    /\ err = ErrSyntaxInt /\ val.P = Ref(0) /\ val.N = 0

(***************************************************************************)
(* C27.  The error returned by bindData and the destination it leaves are   *)
(* a function of the destination type, the destination before the call and  *)
(* the source maps alone: a run that visits the keys of the maps in another *)
(* order ends in the same state, also when several keys equal a tag         *)
(* ignoring case, when two keys project to the same sub-key, and when one   *)
(* of several indexed keys is invalid.                                      *)
(***************************************************************************)
\* the orders in which range can visit the keys of the map data
Orders(data) ==
    { [i \in 1..Len(data) |-> data[f[i]]] :
        f \in { g \in [1..Len(data) -> 1..Len(data)] :
                  \A a, b \in 1..Len(data) : a # b => g[a] # g[b] } }

\* the call of the state on the same destination and the same map, whose
\* keys are visited in the order of q
Rerun(o, r, q) ==
    IF o = "BindQueryParams" THEN BindQueryParams(NewBinder, WithQuery(r, q), typ, pre)
    ELSE BindBody(NewBinder, [r EXCEPT !.form = q], typ, pre)

SameOutcome(res) == res.val = val /\ res.err = err

C27_VisitOrderIrrelevant ==
    (/\ typ = VisitedType
     /\ \/ op = "BindQueryParams"
        \/ op = "BindBody" /\ dlg = "form")
    => \A q \in Orders(SourceOf(op, req, dlg)) : SameOutcome(Rerun(op, req, q))

\* two keys equal the tag ignoring case: the key visited first is bound
C27_Witness ==
    /\ typ = VisitedType /\ op = "BindQueryParams" /\ pre = Zero(VisitedType)
    /\ req.query = <<E("NAME", <<"b">>), E("Name", <<"c">>)>>
    /\ err = "" /\ val.Name = "b"
    /\ Rerun(op, req, <<E("Name", <<"c">>), E("NAME", <<"b">>)>>).val.Name = "c"

\* p.s and p[s] project to the sub-key s: the key visited last is bound
C27_WitnessProjected ==
    /\ typ = VisitedType /\ op = "BindQueryParams" /\ pre = Zero(VisitedType)
    /\ req.query = <<E("p.s", <<"a">>), E("p[s]", <<"b">>)>>
    /\ err = "" /\ val.P.S = "b"
    /\ Rerun(op, req, <<E("p[s]", <<"b">>), E("p.s", <<"a">>)>>).val.P.S = "a"

\* t[0] and t[00] are the same index: the key visited last is bound
C27_WitnessSameIndex ==
    /\ typ = VisitedType /\ op = "BindQueryParams" /\ pre = Zero(VisitedType)
    /\ req.query = <<E("t[0]", <<"1">>), E("t[00]", <<"2">>)>>
    /\ err = "" /\ val.T = <<2>>
    /\ Rerun(op, req, <<E("t[00]", <<"2">>), E("t[0]", <<"1">>)>>).val.T = <<1>>

\* an invalid key among the indexed ones: the keys visited before it are
\* bound, the error is the same
C27_WitnessInvalid ==
    /\ typ = VisitedType /\ op = "BindQueryParams" /\ pre = Zero(VisitedType)
    /\ req.query = <<E("t[0]", <<"1">>), E("t.x", <<"2">>)>>
    /\ err = ErrInvalidIndex /\ val.T = <<1>>
    /\ Rerun(op, req, <<E("t.x", <<"2">>), E("t[0]", <<"1">>)>>).val.T = <<>>
    /\ Rerun(op, req, <<E("t.x", <<"2">>), E("t[0]", <<"1">>)>>).err = ErrInvalidIndex

\* where the order does not matter: the exact key is preferred to the keys
\* that equal the tag ignoring case, and distinct indices do not interfere
C27_WitnessStated ==
    /\ typ = VisitedType /\ op = "BindQueryParams" /\ pre = Zero(VisitedType)
    /\ Len(req.query) = 3
    /\ err = "" /\ (val.Name = "a" \/ val.T = <<1, 2>>)
    /\ \A q \in Orders(req.query) : SameOutcome(Rerun(op, req, q))

(***************************************************************************)
(* C28.  bindData returns, with success or with an error, for every source  *)
(* map, one in which a key has an empty sequence of values included: it     *)
(* never takes the first element of an empty sequence, be it for a map      *)
(* destination, for the value found for a tagged field, or for an indexed   *)
(* key of a list.                                                           *)
(***************************************************************************)
C28_NoIndexOfEmpty ==
    typ = SparseType => ~IsPanic(err)

\* the value found for the tagged field n has no element: inputValue[0]
C28_Witness ==
    /\ typ = SparseType /\ op = "BindBody" /\ dlg = "form"
    /\ req.form = <<E("n", <<>>)>>
    /\ err = PanicIndex

\* the indexed key t[0] without a value, after t[1] has been stored: v[0] in
\* handleArrayValues
C28_WitnessIndexed ==
    /\ typ = SparseType /\ op = "BindBody" /\ dlg = "form" /\ pre = Zero(SparseType)
    /\ req.form = <<E("t[1]", <<"5">>), E("t[0]", <<>>)>>
    /\ err = PanicIndex /\ val.T = <<0, 5>>

\* the map destination reached through the field M: v[0] in the map loop
C28_WitnessMap ==
    /\ typ = SparseType /\ op = "BindBody" /\ dlg = "form" /\ pre = Zero(SparseType)
    /\ req.form = <<E("m[a]", <<>>)>>
    /\ err = PanicIndex /\ val.N = 0

\* a flat list without values panics as well, before its length is read
C28_WitnessFlat ==
    /\ typ = SparseType /\ op = "BindBody" /\ dlg = "form"
    /\ req.form = <<E("t", <<>>)>>
    /\ err = PanicIndex

\* where nothing is indexed: a field that exposes UnmarshalParams is given
\* the empty sequence, and a key of no field is not looked at
C28_WitnessDecoder ==
    /\ typ = SparseType /\ op = "BindBody" /\ dlg = "form" /\ pre = Zero(SparseType)
    /\ req.form = <<E("d", <<>>)>>
    /\ err = "" /\ val.D = "Params()"

(***************************************************************************)
(* C29.  A coercion that fails does not change the field it was aimed at:   *)
(* a scalar field keeps the value it held when its string does not parse,   *)
(* and a list field bound from repeated flat values keeps the list it held  *)
(* (it is not replaced by a partly filled one) when one of the elements     *)
(* does not parse.                                                          *)
(***************************************************************************)
ParseErrors == {ErrSyntaxInt, ErrSyntaxUint, ErrSyntaxBool, ErrSyntaxFloat}

\* the values that do not parse for the kind of the field of their key
Unparsable == {"40000", "-1", "yes", "1,5", "x", "-4", "2", "1.2.3"}

\* data holds a value that its field cannot take
HasUnparsable(data) ==
    \E j \in 1..Len(data) : \E n \in 1..Len(data[j].v) :
        /\ data[j].v[n] \in Unparsable
        /\ ~(data[j].k \in {"li", "lu", "lf"} /\ data[j].v[n] = "2")

C29_FailedCoercionKeepsField ==
    (/\ typ = FrameType
     /\ \/ op = "BindQueryParams"
        \/ op = "BindBody" /\ dlg = "form"
     /\ HasUnparsable(SourceOf(op, req, dlg)))
    => err \in ParseErrors /\ val = pre

\* li=3&li=x on a list that held 1 and 2: the list is neither [3 0] nor
\* empty
C29_Witness ==
    /\ typ = FrameType /\ op = "BindQueryParams"
    /\ req.query = <<E("li", <<"3", "x">>)>>
    /\ pre.LI = <<1, 2>>
    /\ err = ErrSyntaxInt /\ val.LI = <<1, 2>>

\* the scalar kinds: a value out of range, a sign, a word and a comma
C29_WitnessScalar ==
    /\ typ = FrameType /\ op = "BindQueryParams"
    /\ req.query = <<E("i", <<"40000">>)>>
    /\ pre.I = 7
    /\ err = ErrSyntaxInt /\ val.I = 7

C29_WitnessFloat ==
    /\ typ = FrameType /\ op = "BindQueryParams"
    /\ req.query = <<E("f", <<"1,5">>)>>
    /\ pre.F = [float |-> "1.5"]
    /\ err = ErrSyntaxFloat /\ val.F = [float |-> "1.5"]

C29_WitnessBoolList ==
    /\ typ = FrameType /\ op = "BindQueryParams"
    /\ req.query = <<E("lb", <<"0", "2">>)>>
    /\ pre.LB = <<TRUE, FALSE>>
    /\ err = ErrSyntaxBool /\ val.LB = <<TRUE, FALSE>>

(***************************************************************************)
(* C30.  Binding is idempotent for each source: for a destination without   *)
(* decoders of its own, a second run of bindData with the same source maps  *)
(* and the same tag on the result of a successful first run returns         *)
(* success and leaves the destination as the first run left it (scalars,    *)
(* flat lists, indexed lists, nested records and maps alike), and neither   *)
(* run changes the source maps.                                             *)
(***************************************************************************)
\* the destinations without decoders: a scalar, an indexed or flat list and
\* a map; nested records; references; keys that meet
PlainTypes == {ListsType, RecordType, OptionalType, VisitedType}

\* the largest number of keys of a map all of whose orders are tried
MaxPermuted == 3

Reverse(data) == [i \in 1..Len(data) |-> data[Len(data) + 1 - i]]

\* the orders in which the second run is taken to visit the keys of data:
\* every order of a map of up to MaxPermuted keys, and for a larger one the
\* order of the first run and its reverse
SecondOrders(data) ==
    IF Len(data) <= MaxPermuted THEN Orders(data) ELSE {data, Reverse(data)}

\* the call of the state once more, on the destination it has left, the
\* keys of the map being visited in the order of q
RunAgain(o, r, q) ==
    IF o = "BindQueryParams" THEN BindQueryParams(NewBinder, WithQuery(r, q), typ, val)
    ELSE BindBody(NewBinder, [r EXCEPT !.form = q], typ, val)

Unchanged(res) == res.err = "" /\ res.val = val

C30_SecondRunChangesNothing ==
    (/\ typ \in PlainTypes
     /\ \/ op = "BindQueryParams"
        \/ op = "BindBody" /\ dlg = "form"
     /\ err = "")
    => \A q \in SecondOrders(SourceOf(op, req, dlg)) : Unchanged(RunAgain(op, req, q))

\* a second run that visits the keys in the same order changes nothing
C30_SameOrderChangesNothing ==
    (/\ typ \in PlainTypes
     /\ \/ op = "BindQueryParams"
        \/ op = "BindBody" /\ dlg = "form"
     /\ err = "")
    => Unchanged(RunAgain(op, req, SourceOf(op, req, dlg)))

\* t[0]=1&t[00]=2 has left T = [2]; a second run that visits t[00] first
\* leaves T = [1]
C30_Witness ==
    /\ typ = VisitedType /\ op = "BindQueryParams" /\ pre = Zero(VisitedType)
    /\ req.query = <<E("t[0]", <<"1">>), E("t[00]", <<"2">>)>>
    /\ err = "" /\ val.T = <<2>>
    /\ RunAgain(op, req, Reverse(req.query)).err = ""
    /\ RunAgain(op, req, Reverse(req.query)).val.T = <<1>>

\* NAME=b&Name=c has bound b; a second run that visits Name first binds c
C30_WitnessFold ==
    /\ typ = VisitedType /\ op = "BindQueryParams" /\ pre = Zero(VisitedType)
    /\ req.query = <<E("NAME", <<"b">>), E("Name", <<"c">>)>>
    /\ err = "" /\ val.Name = "b"
    /\ RunAgain(op, req, Reverse(req.query)).val.Name = "c"

\* where the second run changes nothing in any order: a list addressed by
\* flat values and by an index, and a nested record
C30_WitnessStated ==
    /\ typ = ListsType /\ op = "BindQueryParams" /\ pre = Zero(ListsType)
    /\ req.query = <<E("t", <<"7", "8">>), E(IndexKey("t", 0), <<"3">>)>>
    /\ err = "" /\ val.T = <<7, 8>>
    /\ \A q \in Orders(req.query) : Unchanged(RunAgain(op, req, q))

C30_WitnessNested ==
    /\ typ = RecordType /\ op = "BindQueryParams" /\ pre = Zero(RecordType)
    /\ err = "" /\ val.Nest.X = 2 /\ val.Nest.Y = 3 /\ val.In.S = "p"
    /\ \A q \in SecondOrders(req.query) : Unchanged(RunAgain(op, req, q))

====
